---- MODULE Spec2Model ----
(***************************************************************************)
(* Model of the client-side resilience and caching layer of wp-quiz-forge  *)
(* (src/services/aiService.ts): the per-provider circuit breaker, the      *)
(* retry loop withRetry, the two ways a provider call reaches the network  *)
(* (callGenericChatApi and the grounded Gemini path of                     *)
(* generateQuizAndMetadata) and the LRU cache with TTL.                    *)
(*                                                                         *)
(* Time is the value of Date.now() in milliseconds, counted from the start *)
(* of the session.  Strings the code inspects (error messages, cached      *)
(* content) are sequences of one-character strings, so that includes() and *)
(* the cache's hash are computed as the code computes them.                *)
(***************************************************************************)
EXTENDS Integers, Sequences, FiniteSets, TLC

\* ------------------------------------------------------------------------
\* Program constants (aiService.ts, CONFIGURATION)
\* ------------------------------------------------------------------------
AI_TIMEOUT_MS == 120000
MAX_RETRIES == 3
RETRY_BACKOFF_MS == 1000
CIRCUIT_BREAKER_THRESHOLD == 5
CIRCUIT_BREAKER_RESET_MS == 60000

\* Program constants (persistenceService.ts, CONFIGURATION)
DB_VERSION == 2
BATCH_DELAY_MS == 500
MAX_DRAFTS == 200
DRAFT_TTL_MS == 604800000
\* The `+ 10` of evictOldDrafts.
EVICT_BUFFER == 10
\* runBackgroundAnalysis: candidates.slice(0, 5)
BatchSize == 5

\* ------------------------------------------------------------------------
\* Bounds of the model
\* ------------------------------------------------------------------------
\* Number of call slots: calls that can be pending at the same time.
MaxCalls == 2
\* The clock stops advancing once it has reached MaxNow.
MaxNow == 120002

\* maxSize of the LRUCache instance whose eviction is followed (the code's
\* instances hold 50 and 100 entries).
CacheMaxSize == 2
\* maxSize of the LRUCache instance whose entries are followed as they age.
AgedCacheMaxSize == 1
\* Number of slots for calls of analyzeContentHealth / generateQuizAndMetadata.
MaxAnalyses == 1
\* A cached entry is read at most until its accessCount is MaxAccessCount.
MaxAccessCount == 2
\* The clock of the cache's specification stops once it has reached MaxCacheNow.
MaxCacheNow == 1800002

\* Number of posts whose drafts are followed.
MaxItems == 1
\* saveDraft is called at most MaxSaves times for one post.
MaxSaves == 2
\* The clock of the draft store's specification stops once it has reached
\* MaxDraftNow.
MaxDraftNow == 500
\* The store holds at most MAX_DRAFTS + MaxExtra records when the application
\* is loaded.
MaxExtra == 2
\* Number of callbacks of runBackgroundAnalysis that can be pending at the same
\* time.
MaxTasks == 2
\* Number of posts on the dashboard when the size of a batch of background
\* analyses is followed: one more than the batch.
MaxPosts == 6
\* processBatch is called with at most MaxBatchTasks tasks and a concurrency of
\* at most MaxConcurrency.
MaxBatchTasks == 4
MaxConcurrency == 3
\* Number of posts the modal is opened for, and of calls of
\* generateEnhancedQuizForModal that can be pending at the same time.
MaxModalPosts == 2
MaxGenerations == 2
\* Number of chunks of one streamed attempt.
MaxChunks == 10

Calls == 1..MaxCalls

\* The providers of the model: one reached through the SDK (it also has the
\* grounded path), one reached through fetch.
Providers == {"gemini", "openai"}

\* Steps of the clock: just over one breaker cooldown, which is also longer
\* than any backoff wait and just over half the attempt timeout.
TickSteps == {60001}

\* Values of Math.random() * 500 (in [0, 500)), truncated to milliseconds.
Jitters == {0, 499}

\* "No timer armed" in a field that otherwise holds a time.
NoTime == 0 - 1

\* ------------------------------------------------------------------------
\* Strings
\* ------------------------------------------------------------------------
Min(a, b) == IF a <= b THEN a ELSE b

DigitChar == <<"0", "1", "2", "3", "4", "5", "6", "7", "8", "9">>

\* `${n}` for a non-negative integer: its decimal digits.
RECURSIVE DecString(_)
DecString(n) ==
    IF n < 10 THEN <<DigitChar[n + 1]>>
    ELSE DecString(n \div 10) \o <<DigitChar[(n % 10) + 1]>>

\* String.prototype.includes
Includes(s, pat) ==
    \E i \in 1..(Len(s) - Len(pat) + 1) : SubSeq(s, i, i + Len(pat) - 1) = pat

StrInvalid == <<"i", "n", "v", "a", "l", "i", "d">>
StrQuota == <<"q", "u", "o", "t", "a">>
StrApiError == <<" ", "A", "P", "I", " ", "e", "r", "r", "o", "r", ":", " ">>
StrOpenAI == <<"O", "p", "e", "n", "A", "I">>
StrFailedToFetch ==
    <<"F", "a", "i", "l", "e", "d", " ", "t", "o", " ", "f", "e", "t", "c", "h">>
\* Texts of errors thrown by the Gemini SDK (the SDK is outside the repository;
\* its message texts are inputs of the model).
StrSdkQuota ==
    <<"e", "x", "c", "e", "e", "d", "e", "d", " ", "q", "u", "o", "t", "a">>
StrSdkOverloaded == <<"o", "v", "e", "r", "l", "o", "a", "d", "e", "d">>
StrSdkInvalidArgument ==
    <<"I", "N", "V", "A", "L", "I", "D", "_", "A", "R", "G", "U", "M", "E", "N", "T">>

\* ------------------------------------------------------------------------
\* Failures of one attempt, as the provider or the transport produces them
\* ------------------------------------------------------------------------
\* kind "http": the endpoint answered with a status that is not ok;
\* kind "transport": fetch rejected; kind "sdk": the Gemini SDK threw `text`.
\* class is the failure's class in the spec's taxonomy: "auth", "validation",
\* "quota" (never to be retried) or "server", "transport" (retryable).
HttpFailure(status, class) ==
    [kind |-> "http", status |-> status, text |-> <<>>, class |-> class]
TransportFailure ==
    [kind |-> "transport", status |-> 0, text |-> StrFailedToFetch, class |-> "transport"]
SdkFailure(text, class) ==
    [kind |-> "sdk", status |-> 0, text |-> text, class |-> class]
NoFailure == [kind |-> "none", status |-> 0, text |-> <<>>, class |-> "none"]
\* Thrown by withRetry itself when the breaker is open.
Unavailable == [kind |-> "unavailable", status |-> 0, text |-> <<>>, class |-> "unavailable"]
\* Thrown by the timeout promise of the grounded path.
TimedOut == [kind |-> "timeout", status |-> 0, text |-> <<>>, class |-> "timeout"]

FailuresOf(p) ==
    IF p = "openai"
    THEN {HttpFailure(401, "auth"), HttpFailure(503, "server")}
    ELSE {SdkFailure(StrSdkQuota, "quota"), SdkFailure(StrSdkOverloaded, "server")}

AllFailures == UNION {FailuresOf(p) : p \in Providers}

\* The message of the Error an attempt of callGenericChatApi throws.
ErrorMessage(e) ==
    IF e.kind = "http" THEN StrOpenAI \o StrApiError \o DecString(e.status)
    ELSE e.text

\* withRetry's test for an error it must not retry.
IsNonRetryable(e) ==
    Includes(ErrorMessage(e), StrInvalid) \/ Includes(ErrorMessage(e), StrQuota)

\* ------------------------------------------------------------------------
\* State
\* ------------------------------------------------------------------------
VARIABLES
    now,              \* Date.now()
    selectedProvider, \* AppState.selectedProvider, which every call reads
    circuitBreakers,  \* provider -> CircuitBreakerState
    calls,            \* call slot -> the position and locals of one provider call
    consec,           \* history: per provider, how many calls in a row ended in a
                      \* recorded failure (counted up to the threshold)
    trial             \* history: per provider, the call admitted by the half-open
                      \* transition and still pending (empty when there is none)

VARIABLES
    maxSize,   \* LRUCache.maxSize, given to the constructor
    cache,     \* LRUCache.cache: the entries in the Map's insertion order
    cret,      \* the latest operation on the cache: its name, its key and
               \* content, what get returned and get's locals isExpired and
               \* isContentChanged
    recency,   \* history: the keys in the order of their latest access (a set or
               \* a get that hit), oldest first, less those an LRU cache has evicted
    inserted,  \* history: the keys set since the cache was last empty by clear()
    distinct   \* history: since then, every set was of a key not set before and
               \* every get hit

VARIABLES
    analysis,  \* slot -> the position, arguments and outcome of one call of
               \* analyzeContentHealth or generateQuizAndMetadata
    source     \* history: for each entry of the cache that these functions
               \* stored, the content and the result of the call that stored it

cacheVars == <<maxSize, cache, cret, recency, inserted, distinct>>
VARIABLES
    pendingWrites, \* persistenceService.pendingWrites: postId -> BatchedWrite
    batchTimer,    \* whether batchTimer holds a timer id (it is only tested
                   \* for truthiness)
    timers,        \* the times at which the setTimeout(flushBatch) callbacks
                   \* that have not run yet are due
    drafts,        \* the object store 'drafts': postId -> StoredDraft
    deletes,       \* the posts for which deleteDraft has removed the pending
                   \* write and not yet issued store.delete
    maintenance,   \* the position of runMaintenance, and what it has flushed
                   \* and evicted so far
    dret,          \* the latest call of the draft store's API and its result
    workflow,      \* postId -> how far the modal workflow of the post has got
    saves,         \* history: postId -> the saveDraft calls made for the post:
                   \* when, with what data, and which of the puts carried it
                   \* (0: it is pending; -1: the session has ended)
    puts,          \* history: postId -> the data flushBatch has put for it
    immediate      \* history: postId -> the data of the saveDraftImmediate
                   \* that no later write to the post followed

VARIABLES
    posts,          \* AppState.posts: postId -> the flags of the post
    filteredPosts,  \* AppState.filteredPosts, as the reducer last computed it
    stateRef,       \* stateRef.current.posts
    postSearchQuery, \* AppState.postSearchQuery
    postFilter,     \* AppState.postFilter
    aliased,        \* whether filteredPosts is the very array that posts is
    armed,          \* whether PostDashboard's timer for runBackgroundAnalysis
                    \* is set
    tasks           \* slot -> one async callback of runBackgroundAnalysis: its
                    \* post, its position and how it ended

VARIABLES
    batch,       \* the call of processBatch: its arguments, queue, results and
                 \* completed, and whether it has returned
    workers,     \* worker -> the task whose execute() it awaits (0: it has ended
                 \* or was not started)
    executions,  \* history: task -> how often its execute() was called
    peak         \* history: the most tasks that were executing at the same time

VARIABLES
    modal,       \* AppState: the fields of the tool generation modal
    restoring,   \* the posts whose beginToolCreation awaits getDraft
    generations  \* slot -> one call of generateEnhancedQuizForModal: its post,
                 \* its position, how it ended and (history) whether the modal
                 \* was closed while it was running

VARIABLES
    stream,    \* the call of analyzeContentHealth or generateQuizAndMetadata whose
               \* stream callback is followed: its position, its attempt and the
               \* locals chunkCount and progress of the attempt
    progress   \* history: the progress values passed to the callback by the call

VARIABLES
    reads,       \* the posts whose getDraft awaits its durable read
    flushError   \* history: the writes of the last flushBatch whose durable
                 \* write failed

callVars == <<selectedProvider, circuitBreakers, calls, consec, trial>>
analysisVars == <<analysis, source>>
draftVars ==
    <<pendingWrites, batchTimer, timers, drafts, deletes, maintenance, dret,
      workflow, saves, puts, immediate>>
schedVars ==
    <<posts, filteredPosts, postSearchQuery, postFilter, aliased, stateRef, armed, tasks>>
batchVars == <<batch, workers, executions, peak>>
modalVars == <<modal, restoring, generations>>
streamVars == <<stream, progress>>
bufferVars == <<reads, flushError>>
sideVars == <<batchVars, modalVars, streamVars, bufferVars>>
appVars == <<analysisVars, draftVars, schedVars, sideVars>>
vars == <<now, callVars, cacheVars, appVars>>

\* A call slot no call occupies.
IdleCall ==
    [pc |-> "idle", provider |-> "gemini", path |-> "generic", attempt |-> 0,
     net |-> 0, delay |-> 0, wakeAt |-> NoTime,
     deadline |-> NoTime, outcome |-> "none", thrown |-> NoFailure,
     failed |-> NoFailure]

\* The slot of a call once it has returned or thrown: its locals are gone; what
\* the caller sees (outcome, thrown) remains, with the number of network attempts
\* made (net) and the failure of its latest failed attempt (failed) as history.
Finished(call, outcome, thrown, failed) ==
    [IdleCall EXCEPT !.pc = "done", !.provider = call.provider, !.path = call.path,
                     !.net = call.net, !.outcome = outcome, !.thrown = thrown,
                     !.failed = failed]

\* ------------------------------------------------------------------------
\* Circuit breaker
\* ------------------------------------------------------------------------
\* getCircuitBreaker creates this state on first use.
NewBreaker == [failures |-> 0, lastFailure |-> 0, isOpen |-> FALSE]

\* recordFailure: the breaker state it leaves, called at time t.
RecordFailure(cb, t) ==
    [failures |-> cb.failures + 1,
     lastFailure |-> t,
     isOpen |-> IF cb.failures + 1 >= CIRCUIT_BREAKER_THRESHOLD THEN TRUE ELSE cb.isOpen]

\* recordSuccess: the breaker state it leaves.
RecordSuccess(cb) ==
    [failures |-> 0, lastFailure |-> cb.lastFailure, isOpen |-> FALSE]

\* isCircuitOpen: the breaker state it leaves, called at time t (it returns
\* that state's isOpen).
IsCircuitOpen(cb, t) ==
    IF cb.isOpen /\ t - cb.lastFailure > CIRCUIT_BREAKER_RESET_MS
    THEN [failures |-> cb.failures \div 2, lastFailure |-> cb.lastFailure, isOpen |-> FALSE]
    ELSE cb

\* The breaker is open and its cooldown has not elapsed at time t.
OpenAt(cb, t) == cb.isOpen /\ t - cb.lastFailure <= CIRCUIT_BREAKER_RESET_MS

Bump(n) == IF n < CIRCUIT_BREAKER_THRESHOLD THEN n + 1 ELSE n

\* ------------------------------------------------------------------------
\* withRetry, as callGenericChatApi calls it
\* ------------------------------------------------------------------------
RECURSIVE Pow2(_)
Pow2(n) == IF n = 0 THEN 1 ELSE 2 * Pow2(n - 1)

\* A backoff that does not grow.
RetryDelayFlat(attempt, jitter) == RETRY_BACKOFF_MS + jitter

\* The wait before the retry that follows attempt number `attempt`.
RetryDelay(attempt, jitter) == RETRY_BACKOFF_MS * Pow2(attempt) + jitter

\* The error withRetry keeps in lastError when an attempt throws e.
CaughtError(e) == e

\* withRetry is entered for provider p: the breaker is consulted; the call is
\* rejected, or its first attempt starts at once.
WithRetryEntry(c) ==
    /\ calls[c].pc = "idle"
    /\ LET p == selectedProvider
           cb == IsCircuitOpen(circuitBreakers[p], now) IN
       /\ circuitBreakers' = [circuitBreakers EXCEPT ![p] = cb]
       /\ IF cb.isOpen
          THEN /\ calls' = [calls EXCEPT ![c] =
                     Finished([IdleCall EXCEPT !.provider = p], "error", Unavailable, NoFailure)]
               /\ consec' = [consec EXCEPT ![p] = 0]
               /\ trial' = trial
          ELSE /\ calls' = [calls EXCEPT ![c] =
                     [IdleCall EXCEPT !.pc = "attempting", !.provider = p, !.net = 1]]
               /\ consec' = consec
               /\ trial' = [trial EXCEPT ![p] =
                     IF circuitBreakers[p].isOpen THEN {c} ELSE @]

StartCall(c) ==
    /\ WithRetryEntry(c)
    /\ UNCHANGED <<appVars, cacheVars, now, selectedProvider>>

\* An attempt of the wrapped function returns.
AttemptSucceeds(c) ==
    /\ calls[c].pc = "attempting"
    /\ calls[c].path = "generic"
    /\ LET p == calls[c].provider IN
       /\ circuitBreakers' = [circuitBreakers EXCEPT ![p] = RecordSuccess(@)]
       /\ consec' = [consec EXCEPT ![p] = 0]
       /\ trial' = [trial EXCEPT ![p] = @ \ {c}]
    /\ calls' = [calls EXCEPT ![c] = Finished(@, "ok", NoFailure, NoFailure)]
    /\ UNCHANGED <<appVars, cacheVars, now, selectedProvider>>

\* An attempt of the wrapped function throws e: the catch block of the loop
\* and, after the last attempt, the code that follows the loop.
AttemptFails(c, e, jitter) ==
    /\ calls[c].pc = "attempting"
    /\ calls[c].path = "generic"
    /\ e \in FailuresOf(calls[c].provider)
    /\ LET p == calls[c].provider
           lastError == CaughtError(e)
       IN
       IF IsNonRetryable(lastError)
       THEN /\ circuitBreakers' = [circuitBreakers EXCEPT ![p] = RecordFailure(@, now)]
            /\ calls' = [calls EXCEPT ![c] = Finished(@, "error", lastError, e)]
            /\ consec' = [consec EXCEPT ![p] = Bump(@)]
            /\ trial' = [trial EXCEPT ![p] = @ \ {c}]
       ELSE IF calls[c].attempt < MAX_RETRIES - 1
       THEN /\ calls' = [calls EXCEPT ![c].pc = "waiting", ![c].failed = e,
                                      ![c].delay = RetryDelay(calls[c].attempt, jitter),
                                      ![c].wakeAt = now + RetryDelay(calls[c].attempt, jitter)]
            /\ UNCHANGED <<circuitBreakers, consec, trial>>
       ELSE /\ circuitBreakers' = [circuitBreakers EXCEPT ![p] = RecordFailure(@, now)]
            /\ calls' = [calls EXCEPT ![c] = Finished(@, "error", lastError, e)]
            /\ consec' = [consec EXCEPT ![p] = Bump(@)]
            /\ trial' = [trial EXCEPT ![p] = @ \ {c}]
    /\ UNCHANGED <<appVars, cacheVars, now, selectedProvider>>

\* The backoff timer fires: the loop goes round and the next attempt starts.
RetryWake(c) ==
    /\ calls[c].pc = "waiting"
    /\ now >= calls[c].wakeAt
    /\ calls' = [calls EXCEPT ![c].pc = "attempting", ![c].attempt = @ + 1,
                              ![c].net = @ + 1, ![c].delay = 0,
                              ![c].wakeAt = NoTime]
    /\ UNCHANGED <<appVars, cacheVars, now, selectedProvider, circuitBreakers, consec, trial>>

\* ------------------------------------------------------------------------
\* The grounded Gemini path of generateQuizAndMetadata
\* ------------------------------------------------------------------------
\* ai.models.generateContent(request) raced against the timeout promise.
GroundedEntry(c) ==
    /\ calls[c].pc = "idle"
    /\ selectedProvider = "gemini"
    /\ calls' = [calls EXCEPT ![c] =
          [IdleCall EXCEPT !.pc = "attempting", !.provider = "gemini",
                           !.path = "grounded", !.net = 1,
                           !.deadline = now + AI_TIMEOUT_MS]]

StartGrounded(c) ==
    /\ GroundedEntry(c)
    /\ UNCHANGED <<appVars, cacheVars, now, selectedProvider, circuitBreakers, consec, trial>>

GroundedSucceeds(c) ==
    /\ calls[c].pc = "attempting"
    /\ calls[c].path = "grounded"
    /\ calls' = [calls EXCEPT ![c] = Finished(@, "ok", NoFailure, NoFailure)]
    /\ UNCHANGED <<appVars, cacheVars, now, selectedProvider, circuitBreakers, consec, trial>>

GroundedFails(c, e) ==
    /\ calls[c].pc = "attempting"
    /\ calls[c].path = "grounded"
    /\ e \in FailuresOf("gemini")
    /\ calls' = [calls EXCEPT ![c] = Finished(@, "error", e, e)]
    /\ UNCHANGED <<appVars, cacheVars, now, selectedProvider, circuitBreakers, consec, trial>>

GroundedTimeout(c) ==
    /\ calls[c].pc = "attempting"
    /\ calls[c].path = "grounded"
    /\ now >= calls[c].deadline
    /\ calls' = [calls EXCEPT ![c] = Finished(@, "error", TimedOut, TimedOut)]
    /\ UNCHANGED <<appVars, cacheVars, now, selectedProvider, circuitBreakers, consec, trial>>

\* The caller has taken the call's result or error: the slot is free again.
Consume(c) ==
    /\ calls[c].pc = "done"
    /\ calls' = [calls EXCEPT ![c] = IdleCall]
    /\ UNCHANGED <<appVars, cacheVars, now, selectedProvider, circuitBreakers, consec, trial>>

\* Time passes.
Tick(d) ==
    /\ now + d <= MaxNow
    /\ now' = now + d
    /\ UNCHANGED <<appVars, cacheVars, selectedProvider, circuitBreakers, calls, consec, trial>>


\* ------------------------------------------------------------------------
\* LRUCache
\* ------------------------------------------------------------------------
\* ttlMs of healthCache.
CacheTtlMs == 1800000
\* LRUCache.hash reads at most this many characters.
HashPrefixLen == 1000
\* A 32-bit integer is kept as its two 16-bit halves <<high, low>> (two's
\* complement), which is how the wrap of JavaScript's & is computed here.
Half == 65536
HalfSignBit == 32768

\* ((hash << 5) - hash) + char, then hash & hash: 31 * hash + char, wrapped
\* to 32 bits.
HashStep(hash, char) ==
    LET t == hash[2] * 31 + char IN
    <<(hash[1] * 31 + (t \div Half)) % Half, t % Half>>

\* The printable ASCII characters, from code 32 on (the place of code 96, the
\* grave accent, holds the empty string: no content of the model has it).
Ascii ==
    <<
      " ", "!", "\"", "#", "$", "%", "&", "'", "(", ")", "*", "+",
      ",", "-", ".", "/", "0", "1", "2", "3", "4", "5", "6", "7",
      "8", "9", ":", ";", "<", "=", ">", "?", "@", "A", "B", "C",
      "D", "E", "F", "G", "H", "I", "J", "K", "L", "M", "N", "O",
      "P", "Q", "R", "S", "T", "U", "V", "W", "X", "Y", "Z", "[",
      "\\", "]", "^", "_", "", "a", "b", "c", "d", "e", "f", "g",
      "h", "i", "j", "k", "l", "m", "n", "o", "p", "q", "r", "s",
      "t", "u", "v", "w", "x", "y", "z", "{", "|", "}", "~"
    >>

AsciiCode ==
    [ch \in {Ascii[i] : i \in 1..Len(Ascii)} |->
        31 + (CHOOSE i \in 1..Len(Ascii) : Ascii[i] = ch)]

\* String.prototype.charCodeAt for a printable ASCII character.
CharCode(ch) == AsciiCode[ch]

Base36Char ==
    <<"0", "1", "2", "3", "4", "5", "6", "7", "8", "9", "a", "b", "c", "d", "e",
      "f", "g", "h", "i", "j", "k", "l", "m", "n", "o", "p", "q", "r", "s", "t",
      "u", "v", "w", "x", "y", "z">>

RECURSIVE Base36(_)
Base36(n) ==
    IF n < 36 THEN <<Base36Char[n + 1]>>
    ELSE Base36(n \div 36) \o <<Base36Char[(n % 36) + 1]>>

\* Number.prototype.toString(36) of a 32-bit integer.
ToString36(n) ==
    IF n[1] >= HalfSignBit
    THEN <<"-">> \o Base36((Half - 1 - n[1]) * Half + (Half - n[2]))
    ELSE Base36(n[1] * Half + n[2])

\* The loop of LRUCache.hash over the first n characters.
HashLoop(content, n) ==
    LET Word == (0..(Half - 1)) \X (0..(Half - 1))
        loop[i \in 0..n, hash \in Word] ==
            IF i = n THEN hash
            ELSE loop[i + 1, HashStep(hash, CharCode(content[i + 1]))]
    IN  loop[0, <<0, 0>>]

\* LRUCache.hash
Hash(content) == ToString36(HashLoop(content, Min(Len(content), HashPrefixLen)))

\* The cache keys of the model, k1, k2, ...: one more than a cache of size n
\* holds. (The code's keys start with "health_" or "quiz_v3_": none is empty.)
Keys(n) == {<<"k">> \o DecString(i) : i \in 1..(n + 1)}

\* The contents of the model: the empty string, and two strings of equal hash.
Contents == {<<>>, <<"A", "a">>, <<"B", "B">>}

Values == {"A"}
Null == "null"

\* JavaScript's truthiness of a string.
Truthy(str) == Len(str) > 0

CacheKeys(c) == {c[i].key : i \in 1..Len(c)}

\* Map.get: the entry of key k (k is in the cache).
EntryOf(c, k) == c[CHOOSE i \in 1..Len(c) : c[i].key = k]

\* Map.delete
MapDelete(c, k) == SelectSeq(c, LAMBDA e : e.key # k)

\* Map.set: an existing key keeps its place, a new key goes last.
MapSet(c, k, entry) ==
    IF k \in CacheKeys(c)
    THEN [i \in 1..Len(c) |-> IF c[i].key = k THEN entry ELSE c[i]]
    ELSE Append(c, entry)

\* The sequence s without x, then x last.
MoveToEnd(s, x) == Append(SelectSeq(s, LAMBDA y : y # x), x)

\* An age test that lets an entry live half its time.
IsExpiredEarly(entry, t) == t - entry.timestamp > CacheTtlMs \div 2

\* get's test of the entry's age.
IsExpired(entry, t) == t - entry.timestamp > CacheTtlMs

\* A content test that takes every content given for a changed one.
IsContentChangedAlways(entry, content) == Truthy(content)

\* get's test of the content: an empty contentForValidation is falsy.
IsContentChanged(entry, content) ==
    Truthy(content) /\ Hash(content) # entry.contentHash

\* A get that counts the access and leaves the entry where it is.
TouchInPlace(c, k) ==
    MapSet(c, k, [EntryOf(c, k) EXCEPT !.accessCount = @ + 1])

\* What get does to a valid entry: count the access, move the entry to the end.
Touch(c, k) ==
    LET entry == [EntryOf(c, k) EXCEPT !.accessCount = @ + 1]
    IN MapSet(MapDelete(c, k), k, entry)

\* What set does before it stores: evict the first key when at capacity.
EvictLRU(c) ==
    IF Len(c) >= maxSize
    THEN IF Len(c) > 0 /\ Truthy(c[1].key) THEN MapDelete(c, c[1].key) ELSE c
    ELSE c

NoKey == <<>>
NoOp ==
    [op |-> "none", key |-> NoKey, content |-> <<>>, value |-> Null,
     isExpired |-> FALSE, isContentChanged |-> FALSE]

\* The history once a set of a key set before, or a get that did not hit, has
\* ended the run of distinct sets and hits: it is kept no further.
HistoryEnds ==
    /\ recency' = <<>>
    /\ inserted' = {}
    /\ distinct' = FALSE

\* LRUCache.get(key, contentForValidation)
LRUGet(k, content) ==
    /\ UNCHANGED maxSize
    /\ IF k \notin CacheKeys(cache)
       THEN /\ cret' = [NoOp EXCEPT !.op = "get", !.key = k, !.content = content]
            /\ HistoryEnds
            /\ UNCHANGED cache
       ELSE LET entry == EntryOf(cache, k)
                isExpired == IsExpired(entry, now)
                isContentChanged == IsContentChanged(entry, content)
            IN
            IF isExpired \/ isContentChanged
            THEN /\ cache' = MapDelete(cache, k)
                 /\ cret' = [NoOp EXCEPT !.op = "get", !.key = k,
                                         !.content = content,
                                         !.isExpired = isExpired,
                                         !.isContentChanged = isContentChanged]
                 /\ HistoryEnds
            ELSE /\ entry.accessCount < MaxAccessCount
                 /\ cache' = Touch(cache, k)
                 /\ cret' = [NoOp EXCEPT !.op = "get", !.key = k,
                                         !.content = content,
                                         !.value = entry.value]
                 /\ IF distinct
                    THEN /\ recency' = MoveToEnd(recency, k)
                         /\ UNCHANGED <<inserted, distinct>>
                    ELSE UNCHANGED <<recency, inserted, distinct>>

\* get, called on its own.
CacheGet(k, content) ==
    /\ LRUGet(k, content)
    /\ UNCHANGED <<now, callVars, appVars>>

\* LRUCache.set(key, value, content)
LRUSet(k, v, content) ==
    /\ UNCHANGED maxSize
    /\ cache' = MapSet(EvictLRU(cache), k,
                       [key |-> k, value |-> v, timestamp |-> now,
                        contentHash |-> Hash(content), accessCount |-> 1])
    /\ cret' = [NoOp EXCEPT !.op = "set", !.key = k, !.content = content]
    /\ IF distinct /\ k \notin inserted
       THEN /\ recency' = IF Len(recency) >= maxSize
                          THEN Append(Tail(recency), k)
                          ELSE Append(recency, k)
            /\ inserted' = inserted \cup {k}
            /\ UNCHANGED distinct
       ELSE HistoryEnds

\* set, called on its own.
CacheSet(k, v, content) ==
    /\ LRUSet(k, v, content)
    /\ UNCHANGED <<now, callVars, appVars>>

\* LRUCache.clear()
CacheClear ==
    /\ UNCHANGED <<now, callVars, appVars, maxSize>>
    /\ cache' = <<>>
    /\ cret' = [NoOp EXCEPT !.op = "clear"]
    /\ recency' = <<>>
    /\ inserted' = {}
    /\ distinct' = TRUE

\* Steps of the cache's clock: half the TTL, and a millisecond more.
CacheTickSteps == {900000, 900001}

CacheTick(d) ==
    /\ now + d <= MaxCacheNow
    /\ now' = now + d
    /\ UNCHANGED <<callVars, cacheVars, appVars>>

\* ------------------------------------------------------------------------
\* Specification of the cache
\* ------------------------------------------------------------------------
\* new LRUCache(size, ttlMinutes)
CacheInit(size) ==
    /\ maxSize = size
    /\ cache = <<>>
    /\ cret = NoOp
    /\ recency = <<>>
    /\ inserted = {}
    /\ distinct = TRUE

\* The cache's operations as time passes.
CacheNext ==
    \/ \E k \in Keys(maxSize), content \in Contents : CacheGet(k, content)
    \/ \E k \in Keys(maxSize), v \in Values, content \in Contents :
          CacheSet(k, v, content)
    \/ CacheClear
    \/ \E d \in CacheTickSteps : CacheTick(d)

\* The cache's operations at one time.
LRUNext ==
    \/ \E k \in Keys(maxSize), content \in Contents : CacheGet(k, content)
    \/ \E k \in Keys(maxSize), v \in Values, content \in Contents :
          CacheSet(k, v, content)
    \/ CacheClear

\* ------------------------------------------------------------------------
\* The draft store (persistenceService.ts)
\* ------------------------------------------------------------------------
Items == 1..MaxItems

\* The fields of DraftData the model follows, as JSON.stringify writes them.
FieldChars(f) ==
    CASE f = "ideas" -> <<"i", "d", "e", "a", "s">>
      [] f = "selectedIdea" ->
            <<"s", "e", "l", "e", "c", "t", "e", "d", "I", "d", "e", "a">>
      [] f = "health" -> <<"h", "e", "a", "l", "t", "h">>

\* A DraftData object is the sequence of its <<field, value>> properties in
\* insertion order; a value is a one-character string.
\* What the callers of saveDraft pass: generateIdeasForModal, selectIdea.
SaveInputs ==
    {<<<<"ideas", "A">>>>,
     <<<<"ideas", "B">>, <<"selectedIdea", "I">>>>}

\* What generateEnhancedQuizForModal passes to saveDraftImmediate.
ImmediateInputs ==
    {<<<<"health", "G">>, <<"selectedIdea", "I">>>>}

\* getDraft's null.
NoData == <<<<"null", "null">>>>

FieldsOf(data) == {data[n][1] : n \in 1..Len(data)}
ValueOf(data, f) == data[CHOOSE n \in 1..Len(data) : data[n][1] = f][2]
NotIn(data, p) == p[1] \notin FieldsOf(data)

\* { ...a, ...b }
Merge(a, b) ==
    [n \in 1..Len(a) |->
        IF a[n][1] \in FieldsOf(b) THEN <<a[n][1], ValueOf(b, a[n][1])>> ELSE a[n]]
    \o SelectSeq(b, LAMBDA p : NotIn(a, p))

\* JSON.stringify of one property and of the first n properties.
JsonMember(p) == <<"\"">> \o FieldChars(p[1]) \o <<"\"", ":", "\"", p[2], "\"">>

RECURSIVE JsonMembers(_, _)
JsonMembers(data, n) ==
    IF n = 0 THEN <<>>
    ELSE IF n = 1 THEN JsonMember(data[1])
    ELSE JsonMembers(data, n - 1) \o <<",">> \o JsonMember(data[n])

JsonStringify(data) == <<"{">> \o JsonMembers(data, Len(data)) \o <<"}">>

computeChecksum(data) ==
    LET str == JsonStringify(data) IN ToString36(HashLoop(str, Len(str)))

\* A checksum test that accepts every record.
validateChecksumNever(stored) == TRUE

validateChecksum(stored) == computeChecksum(stored.data) = stored.checksum

\* The record flushBatch and saveDraftImmediate put.
StoredDraft(postId, data, timestamp) ==
    [postId |-> postId, data |-> data, updatedAt |-> timestamp,
     version |-> DB_VERSION, checksum |-> computeChecksum(data)]

\* A Map or an object store without / with an entry.
Without(map, k) == [j \in DOMAIN map \ {k} |-> map[j]]
With(map, k, v) == [j \in DOMAIN map \cup {k} |-> IF j = k THEN v ELSE map[j]]
Size(map) == Cardinality(DOMAIN map)
EmptyMap == [j \in {} |-> 0]

\* The object store after flushBatch has put the writes.
PutAll(store, writes) ==
    [j \in DOMAIN store \cup DOMAIN writes |->
        IF j \in DOMAIN writes
        THEN StoredDraft(j, writes[j].data, writes[j].timestamp)
        ELSE store[j]]

\* An index that is walked from the newest record on.
BeforeNewest(store, i, j) ==
    \/ store[i].updatedAt > store[j].updatedAt
    \/ store[i].updatedAt = store[j].updatedAt /\ i > j

\* In the index 'updatedAt' record i comes before record j.
Before(store, i, j) ==
    \/ store[i].updatedAt < store[j].updatedAt
    \/ store[i].updatedAt = store[j].updatedAt /\ i < j

\* The first n records the cursor over the index 'updatedAt' comes to, among
\* the records `left`.
RECURSIVE FirstInIndex(_, _, _)
FirstInIndex(store, left, n) ==
    IF n <= 0 \/ left = {} THEN {}
    ELSE LET c == CHOOSE i \in left : \A j \in left \ {i} : Before(store, i, j)
         IN  {c} \cup FirstInIndex(store, left \ {c}, n - 1)

\* The records evictOldDrafts deletes at time t.
Evicted(store, t) ==
    LET cutoff == t - DRAFT_TTL_MS
        totalCount == Size(store)
        toEvict == totalCount - MAX_DRAFTS + EVICT_BUFFER
    IN  IF totalCount <= MAX_DRAFTS
        THEN {j \in DOMAIN store : store[j].updatedAt <= cutoff}
        ELSE FirstInIndex(store, DOMAIN store, toEvict)

NoCall == [op |-> "none", postId |-> 0, value |-> NoData, evicted |-> 0, flushed |-> 0]
Returned(op, postId, value) == [NoCall EXCEPT !.op = op, !.postId = postId, !.value = value]
NoImmediate == [data |-> NoData, reopened |-> FALSE]
IdleMaintenance == [pc |-> "idle", written |-> 0, deleted |-> 0]

\* flushBatch: what it does to the buffer, the timer variable and the store.
\* The histories after the pending writes have been put.
Carried(made, n) ==
    [m \in 1..Len(made) |-> IF made[m].put = 0 THEN [made[m] EXCEPT !.put = n] ELSE made[m]]
Ended(made) == [m \in 1..Len(made) |-> [made[m] EXCEPT !.put = 0 - 1]]
PutsAfter(writes) ==
    [j \in DOMAIN puts |-> IF j \in DOMAIN writes THEN Append(puts[j], writes[j].data) ELSE puts[j]]
SavesAfter(writes) ==
    [j \in DOMAIN saves |-> IF j \in DOMAIN writes THEN Carried(saves[j], Len(puts[j]) + 1) ELSE saves[j]]

flushBatch ==
    IF Size(pendingWrites) = 0
    THEN UNCHANGED <<pendingWrites, batchTimer, drafts, puts, saves>>
    ELSE /\ pendingWrites' = EmptyMap
         /\ batchTimer' = FALSE
         /\ drafts' = PutAll(drafts, pendingWrites)
         /\ puts' = PutsAfter(pendingWrites)
         /\ saves' = SavesAfter(pendingWrites)

\* scheduleBatch
scheduleBatch ==
    IF batchTimer
    THEN UNCHANGED <<batchTimer, timers>>
    ELSE /\ batchTimer' = TRUE
         /\ timers' = timers \cup {now + BATCH_DELAY_MS}

saveDraftEntry(postId, data) ==
    /\ Len(saves[postId]) < MaxSaves
    /\ LET mergedData == IF postId \in DOMAIN pendingWrites
                         THEN Merge(pendingWrites[postId].data, data)
                         ELSE data
       IN pendingWrites' = With(pendingWrites, postId,
                                [postId |-> postId, data |-> mergedData, timestamp |-> now])
    /\ scheduleBatch
    /\ dret' = Returned("saveDraft", postId, NoData)
    /\ saves' = [saves EXCEPT ![postId] = Append(@, [at |-> now, data |-> data, put |-> 0])]
    /\ immediate' = [immediate EXCEPT ![postId] = NoImmediate]
    /\ UNCHANGED <<drafts, deletes, maintenance, workflow, puts>>

saveDraft(postId, data) ==
    /\ saveDraftEntry(postId, data)
    /\ UNCHANGED <<now, callVars, cacheVars, analysisVars, schedVars, sideVars>>

\* A setTimeout(flushBatch, BATCH_DELAY_MS) callback runs.
TimerFires(t) ==
    /\ t \in timers
    /\ now >= t
    /\ timers' = timers \ {t}
    /\ flushBatch
    /\ UNCHANGED <<deletes, maintenance, dret, workflow, immediate>>
    /\ UNCHANGED <<now, callVars, cacheVars, analysisVars, schedVars, sideVars>>

\* generateEnhancedQuizForModal's save: the put succeeds, the promise resolves
\* and GENERATE_ENHANCED_QUIZ_SUCCESS is dispatched.
saveDraftImmediateEntry(postId, data) ==
    /\ workflow[postId] # "published"
    /\ drafts' = With(drafts, postId, StoredDraft(postId, data, now))
    /\ dret' = Returned("saveDraftImmediate", postId, NoData)
    /\ immediate' = [immediate EXCEPT ![postId] = [data |-> data, reopened |-> FALSE]]
    /\ workflow' = [workflow EXCEPT ![postId] = "generated"]
    /\ UNCHANGED <<pendingWrites, batchTimer, timers, deletes, maintenance, saves, puts>>

saveDraftImmediate(postId, data) ==
    /\ saveDraftImmediateEntry(postId, data)
    /\ UNCHANGED <<now, callVars, cacheVars, analysisVars, schedVars, sideVars>>

\* getDraft; the deleteDraft it calls removes the pending write at once and
\* issues store.delete later (DeleteCommit).
getDraftEntry(postId) ==
    /\ IF postId \in DOMAIN pendingWrites
       THEN /\ dret' = Returned("getDraft", postId, pendingWrites[postId].data)
            /\ UNCHANGED <<pendingWrites, deletes>>
       ELSE IF postId \notin DOMAIN drafts
       THEN /\ dret' = Returned("getDraft", postId, NoData)
            /\ UNCHANGED <<pendingWrites, deletes>>
       ELSE IF \/ ~validateChecksum(drafts[postId])
               \/ now - drafts[postId].updatedAt > DRAFT_TTL_MS
       THEN /\ pendingWrites' = Without(pendingWrites, postId)
            /\ deletes' = deletes \cup {postId}
            /\ dret' = Returned("getDraft", postId, NoData)
       ELSE /\ dret' = Returned("getDraft", postId, drafts[postId].data)
            /\ UNCHANGED <<pendingWrites, deletes>>
    /\ UNCHANGED <<batchTimer, timers, drafts, maintenance, workflow, saves, puts, immediate>>

getDraft(postId) ==
    /\ getDraftEntry(postId)
    /\ UNCHANGED <<now, callVars, cacheVars, analysisVars, schedVars, sideVars>>

\* deleteDraft after its await: store.delete(postId).
DeleteCommit(postId) ==
    /\ postId \in deletes
    /\ deletes' = deletes \ {postId}
    /\ drafts' = Without(drafts, postId)
    /\ immediate' = [immediate EXCEPT ![postId] = NoImmediate]
    /\ UNCHANGED <<pendingWrites, batchTimer, timers, maintenance, dret, workflow, saves, puts>>
    /\ UNCHANGED <<now, callVars, cacheVars, analysisVars, schedVars, sideVars>>

\* runMaintenance up to the end of `await flushBatch()`.
MaintenanceFlush ==
    /\ maintenance.pc = "idle"
    /\ flushBatch
    /\ maintenance' = [pc |-> "evicting", written |-> Size(pendingWrites), deleted |-> 0]
    /\ UNCHANGED <<timers, deletes, dret, workflow, immediate>>
    /\ UNCHANGED <<now, callVars, cacheVars, analysisVars, schedVars, sideVars>>

\* runMaintenance from evictOldDrafts to its return.
MaintenanceReturn ==
    /\ maintenance.pc = "evicting"
    /\ LET gone == Evicted(drafts, now) IN
       /\ drafts' = [j \in DOMAIN drafts \ gone |-> drafts[j]]
       /\ maintenance' = [maintenance EXCEPT !.pc = "idle", !.deleted = Cardinality(gone)]
       /\ dret' = [NoCall EXCEPT !.op = "runMaintenance",
                                 !.evicted = Cardinality(gone),
                                 !.flushed = Size(pendingWrites)]
       /\ immediate' = [j \in DOMAIN immediate |-> IF j \in gone THEN NoImmediate ELSE immediate[j]]
    /\ UNCHANGED <<pendingWrites, batchTimer, timers, deletes, workflow, saves, puts>>
    /\ UNCHANGED <<now, callVars, cacheVars, analysisVars, schedVars, sideVars>>

\* insertSnippet, from its call to the dispatch of INSERT_SNIPPET_SUCCESS
\* (state.generatedQuizHtml is set): it does not call the draft store.
insertSnippet(postId) ==
    /\ workflow[postId] = "generated"
    /\ workflow' = [workflow EXCEPT ![postId] = "published"]
    /\ UNCHANGED <<pendingWrites, batchTimer, timers, drafts, deletes, maintenance,
                   dret, saves, puts, immediate>>
    /\ UNCHANGED <<now, callVars, cacheVars, analysisVars, schedVars, sideVars>>

\* One byte of the payload of a stored record changes on disk.
CorruptValue == "X"
Corrupt(postId) ==
    /\ postId \in DOMAIN drafts
    /\ validateChecksum(drafts[postId])
    /\ drafts' = [drafts EXCEPT ![postId].data[1][2] = CorruptValue]
    /\ immediate' = [immediate EXCEPT ![postId] = NoImmediate]
    /\ UNCHANGED <<pendingWrites, batchTimer, timers, deletes, maintenance, dret,
                   workflow, saves, puts>>
    /\ UNCHANGED <<now, callVars, cacheVars, analysisVars, schedVars, sideVars>>

\* The tab is closed and the application loaded again: the beforeunload
\* handler calls flushBatch, whose puts reach the store (flushed) or do not;
\* the module's variables start afresh.
Reopen(flushed) ==
    /\ pendingWrites' = EmptyMap
    /\ batchTimer' = FALSE
    /\ timers' = {}
    /\ deletes' = {}
    /\ maintenance' = IdleMaintenance
    /\ dret' = NoCall
    /\ IF flushed /\ Size(pendingWrites) > 0
       THEN /\ drafts' = PutAll(drafts, pendingWrites)
            /\ puts' = PutsAfter(pendingWrites)
       ELSE UNCHANGED <<drafts, puts>>
    /\ immediate' = [j \in DOMAIN immediate |->
                        IF immediate[j] = NoImmediate THEN NoImmediate
                        ELSE [immediate[j] EXCEPT !.reopened = TRUE]]
    /\ workflow' = [j \in DOMAIN workflow |-> IF workflow[j] = "published" THEN "published" ELSE "open"]
    /\ saves' = [j \in DOMAIN saves |-> Ended(saves[j])]
    /\ UNCHANGED <<now, callVars, cacheVars, analysisVars, schedVars, sideVars>>

DraftTickSteps == {250}

\* Time passes; a timer callback runs when it is due.
DraftTick(d) ==
    /\ now + d <= MaxDraftNow
    /\ \A t \in timers : now + d <= t
    /\ now' = now + d
    /\ UNCHANGED <<callVars, cacheVars, appVars>>

\* The store as the module finds it when it is loaded: empty, or with a record
\* of an earlier session that is exactly DRAFT_TTL_MS old, or older.
OldData == <<<<"ideas", "A">>>>
DraftStores ==
    {EmptyMap} \cup {[j \in {1} |-> StoredDraft(1, OldData, 0 - DRAFT_TTL_MS - age)] : age \in {0, 1}}

\* A store of n records with distinct updatedAt, increasing with postId, of
\* which the first `expired` are older than DRAFT_TTL_MS.
AgedStore(n, expired) ==
    [j \in 1..n |->
        StoredDraft(j, OldData,
                    IF j <= expired
                    THEN 0 - DRAFT_TTL_MS - (expired + 1 - j)
                    ELSE 0 - (n + 1 - j))]
StoreCounts == (MAX_DRAFTS - 1)..(MAX_DRAFTS + MaxExtra)
ExpiredCounts == {0, 1, EVICT_BUFFER + MaxExtra + 1}

DraftIdleOver(ids, store) ==
    /\ pendingWrites = EmptyMap
    /\ batchTimer = FALSE
    /\ timers = {}
    /\ drafts = store
    /\ deletes = {}
    /\ maintenance = IdleMaintenance
    /\ dret = NoCall
    /\ workflow = [j \in ids |-> "open"]
    /\ saves = [j \in ids |-> <<>>]
    /\ puts = [j \in ids |-> <<>>]
    /\ immediate = [j \in ids |-> NoImmediate]

\* The draft store when the application is loaded, for the posts of Items.
DraftIdle(store) == DraftIdleOver(Items, store)

\* Writes to the draft store, batched and immediate, with the timer, the
\* maintenance run and the reload of the application.
DraftNext ==
    \/ \E postId \in Items, data \in SaveInputs : saveDraft(postId, data)
    \/ \E t \in timers : TimerFires(t)
    \/ \E postId \in Items, data \in ImmediateInputs : saveDraftImmediate(postId, data)
    \/ \E postId \in Items : getDraft(postId)
    \/ MaintenanceFlush
    \/ MaintenanceReturn
    \/ \E flushed \in BOOLEAN : Reopen(flushed)
    \/ \E d \in DraftTickSteps : DraftTick(d)

\* The maintenance run over a store near its capacity.
EvictNext ==
    \/ \E postId \in Items, data \in SaveInputs : saveDraft(postId, data)
    \/ MaintenanceFlush
    \/ MaintenanceReturn

\* Reads of the draft store over records that age, get corrupted, are written
\* anew and whose post is published.
IntegrityNext ==
    \/ \E postId \in Items, data \in SaveInputs : saveDraft(postId, data)
    \/ \E t \in timers : TimerFires(t)
    \/ \E postId \in Items, data \in ImmediateInputs : saveDraftImmediate(postId, data)
    \/ \E postId \in Items : getDraft(postId)
    \/ \E postId \in Items : DeleteCommit(postId)
    \/ \E postId \in Items : insertSnippet(postId)
    \/ \E postId \in Items : Corrupt(postId)
    \/ \E d \in DraftTickSteps : DraftTick(d)

\* ------------------------------------------------------------------------
\* The draft store with its awaits: reads in flight and flushes that fail
\* ------------------------------------------------------------------------
\* The histories of the pending writes that are removed without being put.
Dropped(made) ==
    [m \in 1..Len(made) |-> IF made[m].put = 0 THEN [made[m] EXCEPT !.put = 0 - 1] ELSE made[m]]
SavesDropped(ids) ==
    [j \in DOMAIN saves |-> IF j \in ids THEN Dropped(saves[j]) ELSE saves[j]]

BufferIdle ==
    /\ reads = {}
    /\ flushError = EmptyMap

\* getDraft up to its first await: the pending write, or the durable read
\* is begun.
getDraftCall(postId) ==
    /\ postId \notin reads
    /\ IF postId \in DOMAIN pendingWrites
       THEN /\ dret' = Returned("getDraft", postId, pendingWrites[postId].data)
            /\ UNCHANGED reads
       ELSE /\ reads' = reads \cup {postId}
            /\ UNCHANGED dret
    /\ UNCHANGED <<pendingWrites, batchTimer, timers, drafts, deletes, maintenance,
                   workflow, saves, puts, immediate, flushError>>
    /\ UNCHANGED <<now, callVars, cacheVars, analysisVars, schedVars, batchVars,
                   modalVars, streamVars>>

\* deleteDraft up to its await: the pending write is removed; store.delete
\* follows (DeleteCommit).
deleteDraftEntry(postId) ==
    /\ pendingWrites' = Without(pendingWrites, postId)
    /\ deletes' = deletes \cup {postId}
    /\ saves' = SavesDropped({postId})

\* getDraft's request.onsuccess: no record, a record that is discarded
\* (deleteDraft is called and not awaited), or the record's data.
DraftReadCompletes(postId) ==
    /\ postId \in reads
    /\ reads' = reads \ {postId}
    /\ IF postId \notin DOMAIN drafts
       THEN /\ dret' = Returned("getDraft", postId, NoData)
            /\ UNCHANGED <<pendingWrites, deletes, saves>>
       ELSE IF \/ ~validateChecksum(drafts[postId])
               \/ now - drafts[postId].updatedAt > DRAFT_TTL_MS
       THEN /\ deleteDraftEntry(postId)
            /\ dret' = Returned("getDraft", postId, NoData)
       ELSE /\ dret' = Returned("getDraft", postId, drafts[postId].data)
            /\ UNCHANGED <<pendingWrites, deletes, saves>>
    /\ UNCHANGED <<batchTimer, timers, drafts, maintenance, workflow, puts, immediate,
                   flushError>>
    /\ UNCHANGED <<now, callVars, cacheVars, analysisVars, schedVars, batchVars,
                   modalVars, streamVars>>

\* getDraft's read fails: getDB throws (null is returned) or the request
\* errors (the promise rejects).
DraftReadFails(postId) ==
    /\ postId \in reads
    /\ reads' = reads \ {postId}
    /\ dret' = Returned("getDraft", postId, NoData)
    /\ UNCHANGED <<pendingWrites, batchTimer, timers, drafts, deletes, maintenance,
                   workflow, saves, puts, immediate, flushError>>
    /\ UNCHANGED <<now, callVars, cacheVars, analysisVars, schedVars, batchVars,
                   modalVars, streamVars>>

\* flushBatch when getDB rejects or the transaction errors: the buffer was
\* copied and cleared before the await, nothing is put, the promise rejects.
flushBatchFails ==
    /\ Size(pendingWrites) > 0
    /\ pendingWrites' = EmptyMap
    /\ batchTimer' = FALSE
    /\ flushError' = pendingWrites
    /\ saves' = SavesDropped(DOMAIN pendingWrites)
    /\ UNCHANGED <<drafts, puts>>

\* The timer callback runs and its flush fails.
TimerFiresFlushFails(t) ==
    /\ t \in timers
    /\ now >= t
    /\ timers' = timers \ {t}
    /\ flushBatchFails
    /\ UNCHANGED <<deletes, maintenance, dret, workflow, immediate, reads>>
    /\ UNCHANGED <<now, callVars, cacheVars, analysisVars, schedVars, batchVars,
                   modalVars, streamVars>>

\* runMaintenance when `await flushBatch()` throws: it rejects.
MaintenanceFlushFails ==
    /\ maintenance.pc = "idle"
    /\ flushBatchFails
    /\ UNCHANGED <<timers, deletes, maintenance, dret, workflow, immediate, reads>>
    /\ UNCHANGED <<now, callVars, cacheVars, analysisVars, schedVars, batchVars,
                   modalVars, streamVars>>

\* The draft store with reads that take time and flushes that may fail.
BufferNext ==
    \/ \E postId \in Items, data \in SaveInputs : saveDraft(postId, data)
    \/ \E t \in timers : TimerFires(t)
    \/ \E t \in timers : TimerFiresFlushFails(t)
    \/ \E postId \in Items : getDraftCall(postId)
    \/ \E postId \in Items : DraftReadCompletes(postId)
    \/ \E postId \in Items : DraftReadFails(postId)
    \/ \E postId \in Items : DeleteCommit(postId)
    \/ MaintenanceFlush
    \/ MaintenanceFlushFails
    \/ MaintenanceReturn
    \/ \E d \in DraftTickSteps : DraftTick(d)

\* ------------------------------------------------------------------------
\* processBatch (aiService.ts)
\* ------------------------------------------------------------------------
BatchTasks == 1..MaxBatchTasks
Concurrencies == 1..MaxConcurrency

\* The number of workers processBatch starts, and one that starts a worker for
\* every task.
WorkerCountAll(concurrency, n) == n
WorkerCount(concurrency, n) == Min(concurrency, n)

NoBatch ==
    [pc |-> "idle", tasks |-> 0, concurrency |-> 0, queue |-> <<>>,
     results |-> EmptyMap, completed |-> 0]

BatchIdle ==
    /\ batch = NoBatch
    /\ workers = [w \in BatchTasks |-> 0]
    /\ executions = [id \in BatchTasks |-> 0]
    /\ peak = 0

\* The tasks that are executing: a worker awaits task.execute().
Executing == {workers[w] : w \in BatchTasks} \ {0}

\* processBatch(tasks, concurrency) with the tasks 1..n, up to its await: each
\* worker takes a task from the queue and awaits it. Without tasks it returns.
processBatch(n, concurrency) ==
    /\ batch.pc \in {"idle", "returned"}
    /\ LET count == WorkerCount(concurrency, n) IN
       /\ batch' = [pc |-> IF count = 0 THEN "returned" ELSE "running",
                    tasks |-> n,
                    concurrency |-> concurrency,
                    queue |-> [i \in 1..(n - count) |-> count + i],
                    results |-> EmptyMap,
                    completed |-> 0]
       /\ workers' = [w \in BatchTasks |-> IF w <= count THEN w ELSE 0]
       /\ executions' = [id \in BatchTasks |-> IF id <= count THEN 1 ELSE 0]
       /\ peak' = count
    /\ UNCHANGED <<now, callVars, cacheVars, analysisVars, draftVars, schedVars, modalVars, streamVars,
                   bufferVars>>

\* task.execute() of worker w's task settles, with a result or an error: the
\* entry is set, the worker takes the next task or ends; when the last
\* worker has ended processBatch returns the results.
TaskSettles(w, outcome) ==
    /\ batch.pc = "running"
    /\ workers[w] # 0
    /\ LET next == IF Len(batch.queue) > 0 THEN batch.queue[1] ELSE 0 IN
       /\ workers' = [workers EXCEPT ![w] = next]
       /\ batch' = [batch EXCEPT
                       !.results = With(@, workers[w], outcome),
                       !.completed = @ + 1,
                       !.queue = IF next = 0 THEN <<>> ELSE Tail(@),
                       !.pc = IF \A v \in BatchTasks : workers'[v] = 0
                              THEN "returned" ELSE "running"]
       /\ executions' = IF next = 0 THEN executions
                        ELSE [executions EXCEPT ![next] = @ + 1]
       /\ peak' = IF Cardinality({workers'[v] : v \in BatchTasks} \ {0}) > peak
                  THEN Cardinality({workers'[v] : v \in BatchTasks} \ {0})
                  ELSE peak
    /\ UNCHANGED <<now, callVars, cacheVars, analysisVars, draftVars, schedVars, modalVars, streamVars,
                   bufferVars>>

BatchNext ==
    \/ \E n \in 0..MaxBatchTasks, concurrency \in Concurrencies : processBatch(n, concurrency)
    \/ \E w \in BatchTasks, outcome \in {"result", "error"} : TaskSettles(w, outcome)

\* ------------------------------------------------------------------------
\* The tool generation modal (AppContext.tsx)
\* ------------------------------------------------------------------------
ModalPosts == 1..MaxModalPosts
Generations == 1..MaxGenerations

\* The modal's part of initialState. activePostForModal is the id of the post
\* (0: null); toolIdeas and selectedIdea hold the draft's values ("": none);
\* generatedQuizHtml and suggestedContentUpdate hold the post they were
\* generated for (0: '' and null).
ClosedModal ==
    [isToolGenerationModalOpen |-> FALSE, activePostForModal |-> 0,
     modalStatus |-> "idle", toolIdeas |-> "", selectedIdea |-> "",
     generatedQuizHtml |-> 0, suggestedContentUpdate |-> 0]

IdleGeneration == [pc |-> "idle", post |-> 0, cancelled |-> FALSE, outcome |-> "none"]

ModalIdle ==
    /\ modal = ClosedModal
    /\ restoring = {}
    /\ generations = [g \in Generations |-> IdleGeneration]

\* The reducer's cases for the modal.
OpenToolModal(state, post) ==
    [state EXCEPT !.isToolGenerationModalOpen = TRUE, !.activePostForModal = post,
                  !.modalStatus = "idle", !.toolIdeas = "", !.selectedIdea = "",
                  !.generatedQuizHtml = 0, !.suggestedContentUpdate = 0]
CloseToolModal(state) ==
    [state EXCEPT !.isToolGenerationModalOpen = FALSE, !.activePostForModal = 0,
                  !.modalStatus = "idle"]
RestoreDraft(state, data) ==
    [state EXCEPT !.modalStatus = "success",
                  !.toolIdeas = ValueOf(data, "ideas"),
                  !.selectedIdea = IF "selectedIdea" \in FieldsOf(data)
                                   THEN ValueOf(data, "selectedIdea") ELSE ""]
GetIdeasSuccess(state) == [state EXCEPT !.modalStatus = "success", !.toolIdeas = ""]
GenerateEnhancedQuizSuccess(state, post) ==
    [state EXCEPT !.modalStatus = "success", !.generatedQuizHtml = post,
                  !.suggestedContentUpdate = post]

\* beginToolCreation up to `await getDraft(post.id)`: OPEN_TOOL_MODAL. The
\* cards of the dashboard are behind the open modal.
beginToolCreation(post) ==
    /\ ~modal.isToolGenerationModalOpen
    /\ post \notin restoring
    /\ modal' = OpenToolModal(modal, post)
    /\ restoring' = restoring \cup {post}
    /\ UNCHANGED generations
    /\ UNCHANGED <<now, callVars, cacheVars, analysisVars, draftVars, schedVars, batchVars, streamVars,
                   bufferVars>>

\* beginToolCreation after getDraft has returned: RESTORE_DRAFT for a draft
\* with ideas, GET_IDEAS_SUCCESS for one with health only.
ToolDraftLookedUp(post) ==
    /\ post \in restoring
    /\ restoring' = restoring \ {post}
    /\ getDraftEntry(post)
    /\ LET draft == dret'.value IN
       modal' = IF "ideas" \in FieldsOf(draft) THEN RestoreDraft(modal, draft)
                ELSE IF "health" \in FieldsOf(draft) THEN GetIdeasSuccess(modal)
                ELSE modal
    /\ UNCHANGED generations
    /\ UNCHANGED <<now, callVars, cacheVars, analysisVars, schedVars, batchVars, streamVars,
                   bufferVars>>

\* closeToolGenerationModal, which handleCancelGeneration calls as well.
closeToolGenerationModal ==
    /\ modal.isToolGenerationModalOpen
    /\ modal' = CloseToolModal(modal)
    /\ generations' = [g \in Generations |->
                          IF generations[g].pc = "running"
                          THEN [generations[g] EXCEPT !.cancelled = TRUE]
                          ELSE generations[g]]
    /\ UNCHANGED restoring
    /\ UNCHANGED <<now, callVars, cacheVars, analysisVars, draftVars, schedVars, batchVars, streamVars,
                   bufferVars>>

\* generateEnhancedQuizForModal up to its await: GENERATE_ENHANCED_QUIZ_START.
generateEnhancedQuizForModal(g) ==
    /\ generations[g].pc = "idle"
    /\ modal.isToolGenerationModalOpen
    /\ modal.activePostForModal # 0
    /\ Truthy(modal.selectedIdea)
    /\ modal.modalStatus # "loading"
    /\ modal' = [modal EXCEPT !.modalStatus = "loading"]
    /\ generations' = [generations EXCEPT ![g] =
                          [pc |-> "running", post |-> modal.activePostForModal,
                           cancelled |-> FALSE, outcome |-> "none"]]
    /\ UNCHANGED restoring
    /\ UNCHANGED <<now, callVars, cacheVars, analysisVars, draftVars, schedVars, batchVars, streamVars,
                   bufferVars>>

\* The two generated results have arrived: saveDraftImmediate, then
\* GENERATE_ENHANCED_QUIZ_SUCCESS.
GenerationReturns(g) ==
    /\ generations[g].pc = "running"
    /\ \E data \in ImmediateInputs : saveDraftImmediateEntry(generations[g].post, data)
    /\ modal' = GenerateEnhancedQuizSuccess(modal, generations[g].post)
    /\ generations' = [generations EXCEPT ![g].pc = "idle", ![g].outcome = "returned"]
    /\ UNCHANGED restoring
    /\ UNCHANGED <<now, callVars, cacheVars, analysisVars, schedVars, batchVars, streamVars,
                   bufferVars>>

\* generateQuizAndMetadata or saveDraftImmediate throws: SET_MODAL_STATUS.
GenerationThrows(g) ==
    /\ generations[g].pc = "running"
    /\ modal' = [modal EXCEPT !.modalStatus = "error"]
    /\ generations' = [generations EXCEPT ![g].pc = "idle", ![g].outcome = "failed"]
    /\ UNCHANGED restoring
    /\ UNCHANGED <<now, callVars, cacheVars, analysisVars, draftVars, schedVars, batchVars, streamVars,
                   bufferVars>>

\* The drafts an earlier session left: ideas and a selected idea for every post.
ModalStores ==
    {[j \in ModalPosts |-> StoredDraft(j, <<<<"ideas", "B">>, <<"selectedIdea", "I">>>>, 0 - 1)]}

ModalNext ==
    \/ \E post \in ModalPosts : beginToolCreation(post)
    \/ \E post \in ModalPosts : ToolDraftLookedUp(post)
    \/ closeToolGenerationModal
    \/ \E g \in Generations : generateEnhancedQuizForModal(g)
    \/ \E g \in Generations : GenerationReturns(g)
    \/ \E g \in Generations : GenerationThrows(g)

\* ------------------------------------------------------------------------
\* runBackgroundAnalysis (AppContext.tsx)
\* ------------------------------------------------------------------------
Tasks == 1..MaxTasks

\* A post as fetchPosts returns it.
FreshPost == [hasOptimizerSnippet |-> FALSE, healthAnalysis |-> FALSE, isAnalyzing |-> FALSE]

\* post.title.rendered and post.content.rendered of post p.
Title(p) == IF p % 2 = 1 THEN <<"a">> ELSE <<"b">>
Content(p) == <<"c">>

\* What the user types into the search box, and the filter buttons.
Queries == {<<>>, <<" ">>, <<"A">>}
Filters == {"all", "with-quiz", "without-quiz"}

\* String.prototype.toLowerCase and trim.
ToLowerCase(str) ==
    [i \in 1..Len(str) |->
        LET code == CharCode(str[i])
        IN IF code >= 65 /\ code <= 90 THEN Ascii[code + 32 - 31] ELSE str[i]]

RECURSIVE Trim(_)
Trim(str) ==
    IF Len(str) = 0 THEN str
    ELSE IF str[1] = " " THEN Trim(Tail(str))
    ELSE IF str[Len(str)] = " " THEN Trim(SubSeq(str, 1, Len(str) - 1))
    ELSE str

\* computeFilteredPosts: a list of posts is a function from the ids of its
\* posts, in the order of the ids.
computeFilteredPosts(list, searchQuery, filter) ==
    LET filtered == IF filter = "with-quiz"
                    THEN {p \in DOMAIN list : list[p].hasOptimizerSnippet}
                    ELSE IF filter = "without-quiz"
                    THEN {p \in DOMAIN list : ~list[p].hasOptimizerSnippet}
                    ELSE DOMAIN list
        query == ToLowerCase(searchQuery)
        result == IF Truthy(Trim(searchQuery))
                  THEN {p \in filtered : \/ Includes(ToLowerCase(Title(p)), query)
                                         \/ Includes(ToLowerCase(Content(p)), query)}
                  ELSE filtered
    IN [p \in result |-> list[p]]

\* computeFilteredPosts returns its argument itself, not a new array.
ReturnsArgument(searchQuery, filter) ==
    filter = "all" /\ ~Truthy(Trim(searchQuery))

\* What runBackgroundAnalysis saves after an analysis.
AnalysisData == <<<<"health", "G">>, <<"ideas", "A">>>>

IdleTask == [pc |-> "idle", post |-> 0, outcome |-> "none"]

\* The reducer's START_BACKGROUND_ANALYSIS for the posts of `started`, and its
\* COMPLETE_BACKGROUND_ANALYSIS for one post.
StartBackgroundAnalysis(list, started) ==
    [p \in DOMAIN list |-> IF p \in started THEN [list[p] EXCEPT !.isAnalyzing = TRUE] ELSE list[p]]
CompleteBackgroundAnalysis(list, postId) ==
    [p \in DOMAIN list |->
        IF p = postId THEN [list[p] EXCEPT !.isAnalyzing = FALSE, !.healthAnalysis = TRUE]
        ELSE list[p]]

\* PostDashboard's effect after the reducer has computed filteredPosts anew:
\* when the array is another one than before, the timer is cleared and, for a
\* list that is not empty, set again.
EffectRuns ==
    IF aliased /\ aliased'
    THEN UNCHANGED armed
    ELSE armed' = (DOMAIN filteredPosts' # {})

\* The lists fetchPosts returns: no post has a quiz, or the first has one.
FetchedLists ==
    {[p \in DOMAIN posts |-> FreshPost],
     [p \in DOMAIN posts |->
         IF p = 1 THEN [FreshPost EXCEPT !.hasOptimizerSnippet = TRUE] ELSE FreshPost]}

\* CONFIGURE_SUCCESS, DELETE_SNIPPET_COMPLETE, INSERT_SNIPPET_SUCCESS: the posts
\* are replaced by what fetchPosts returned; PostDashboard's effect sets its
\* timer anew.
ReplacePosts ==
    /\ \E fetched \in FetchedLists : posts' = fetched
    /\ filteredPosts' = computeFilteredPosts(posts', postSearchQuery, postFilter)
    /\ aliased' = ReturnsArgument(postSearchQuery, postFilter)
    /\ armed' = (DOMAIN filteredPosts' # {})
    /\ UNCHANGED <<postSearchQuery, postFilter, stateRef, tasks>>
    /\ UNCHANGED <<now, callVars, cacheVars, analysisVars, draftVars, sideVars>>

\* SET_POST_SEARCH_QUERY
SetPostSearchQuery(searchQuery) ==
    /\ postSearchQuery' = searchQuery
    /\ filteredPosts' = computeFilteredPosts(posts, searchQuery, postFilter)
    /\ aliased' = ReturnsArgument(searchQuery, postFilter)
    /\ EffectRuns
    /\ UNCHANGED <<posts, postFilter, stateRef, tasks>>
    /\ UNCHANGED <<now, callVars, cacheVars, analysisVars, draftVars, sideVars>>

\* SET_POST_FILTER
SetPostFilter(filter) ==
    /\ postFilter' = filter
    /\ filteredPosts' = computeFilteredPosts(posts, postSearchQuery, filter)
    /\ aliased' = ReturnsArgument(postSearchQuery, filter)
    /\ EffectRuns
    /\ UNCHANGED <<posts, postSearchQuery, stateRef, tasks>>
    /\ UNCHANGED <<now, callVars, cacheVars, analysisVars, draftVars, sideVars>>

\* The provider has rendered: its effect runs, stateRef.current = state.
Render ==
    /\ stateRef # posts
    /\ stateRef' = posts
    /\ UNCHANGED <<posts, filteredPosts, postSearchQuery, postFilter, aliased, armed, tasks>>
    /\ UNCHANGED <<now, callVars, cacheVars, analysisVars, draftVars, sideVars>>

\* The first n ids of a set, and the place of an id in a set.
Rank(ids, id) == Cardinality({j \in ids : j < id})
Slice(ids, n) == {id \in ids : Rank(ids, id) < n}

\* PostDashboard's timer fires: runBackgroundAnalysis(filteredPosts), up to the
\* first await of each callback. The callbacks take the free slots in order.
runBackgroundAnalysis ==
    /\ armed
    /\ armed' = FALSE
    /\ LET candidates == Slice({p \in DOMAIN filteredPosts :
                                    /\ ~filteredPosts[p].hasOptimizerSnippet
                                    /\ ~filteredPosts[p].healthAnalysis
                                    /\ ~filteredPosts[p].isAnalyzing},
                               BatchSize)
           started == {p \in candidates : ~stateRef[p].isAnalyzing}
           free == {t \in DOMAIN tasks : tasks[t].pc = "idle"}
       IN  /\ Cardinality(started) <= Cardinality(free)
           /\ tasks' = [t \in DOMAIN tasks |->
                          IF t \in free /\ Rank(free, t) < Cardinality(started)
                          THEN [pc |-> "draft",
                                post |-> CHOOSE p \in started :
                                             Rank(started, p) = Rank(free, t),
                                outcome |-> "none"]
                          ELSE tasks[t]]
           /\ posts' = StartBackgroundAnalysis(posts, started)
           /\ aliased' = (aliased /\ started = {})
    /\ UNCHANGED <<filteredPosts, postSearchQuery, postFilter, stateRef>>
    /\ UNCHANGED <<now, callVars, cacheVars, analysisVars, draftVars, sideVars>>

\* `await getDraft(post.id)` returns: a draft with health completes the
\* analysis, otherwise analyzeContentHealth is called.
DraftLookedUp(t) ==
    /\ tasks[t].pc = "draft"
    /\ getDraftEntry(tasks[t].post)
    /\ IF "health" \in FieldsOf(dret'.value)
       THEN /\ posts' = CompleteBackgroundAnalysis(posts, tasks[t].post)
            /\ aliased' = FALSE
            /\ tasks' = [tasks EXCEPT ![t].pc = "idle", ![t].outcome = "completed"]
       ELSE /\ tasks' = [tasks EXCEPT ![t].pc = "analyzing"]
            /\ UNCHANGED <<posts, aliased>>
    /\ UNCHANGED <<filteredPosts, postSearchQuery, postFilter, stateRef, armed>>
    /\ UNCHANGED <<now, callVars, cacheVars, analysisVars, sideVars>>

\* `await getDraft(post.id)` rejects (request.onerror): the callback ends.
DraftLookupFails(t) ==
    /\ tasks[t].pc = "draft"
    /\ tasks' = [tasks EXCEPT ![t].pc = "idle", ![t].outcome = "failed"]
    /\ UNCHANGED <<posts, filteredPosts, postSearchQuery, postFilter, aliased, stateRef, armed>>
    /\ UNCHANGED <<now, callVars, cacheVars, analysisVars, draftVars, sideVars>>

\* analyzeContentHealth returns: COMPLETE_BACKGROUND_ANALYSIS, saveDraft.
AnalysisReturns(t) ==
    /\ tasks[t].pc = "analyzing"
    /\ posts' = CompleteBackgroundAnalysis(posts, tasks[t].post)
    /\ aliased' = FALSE
    /\ saveDraftEntry(tasks[t].post, AnalysisData)
    /\ tasks' = [tasks EXCEPT ![t].pc = "idle", ![t].outcome = "completed"]
    /\ UNCHANGED <<filteredPosts, postSearchQuery, postFilter, stateRef, armed>>
    /\ UNCHANGED <<now, callVars, cacheVars, analysisVars, sideVars>>

\* analyzeContentHealth throws: the catch block logs.
AnalysisThrows(t) ==
    /\ tasks[t].pc = "analyzing"
    /\ tasks' = [tasks EXCEPT ![t].pc = "idle", ![t].outcome = "failed"]
    /\ UNCHANGED <<posts, filteredPosts, postSearchQuery, postFilter, aliased, stateRef, armed>>
    /\ UNCHANGED <<now, callVars, cacheVars, analysisVars, draftVars, sideVars>>

\* The application after CONFIGURE_SUCCESS and its first render, with the
\* posts of `ids` and callbacks in the slots `slots`.
SchedIdleOver(ids, slots) ==
    /\ posts = [p \in ids |-> FreshPost]
    /\ postSearchQuery = <<>>
    /\ postFilter = "all"
    /\ filteredPosts = computeFilteredPosts(posts, postSearchQuery, postFilter)
    /\ aliased = TRUE
    /\ stateRef = posts
    /\ armed = TRUE
    /\ tasks = [t \in slots |-> IdleTask]

SchedIdle == SchedIdleOver(Items, Tasks)

\* The store as an earlier session may have left it: empty, or with the
\* analysis of post 1.
SchedStores == {EmptyMap, [j \in {1} |-> StoredDraft(1, AnalysisData, 0 - 1)]}

\* What runs without the user: the callbacks and the render.
Background ==
    \/ \E t \in Tasks : DraftLookedUp(t)
    \/ \E t \in Tasks : DraftLookupFails(t)
    \/ \E t \in Tasks : AnalysisReturns(t)
    \/ \E t \in Tasks : AnalysisThrows(t)
    \/ Render

SchedNext ==
    \/ ReplacePosts
    \/ \E searchQuery \in Queries : SetPostSearchQuery(searchQuery)
    \/ \E filter \in Filters : SetPostFilter(filter)
    \/ Render
    \/ runBackgroundAnalysis
    \/ \E t \in Tasks : DraftLookedUp(t)
    \/ \E t \in Tasks : DraftLookupFails(t)
    \/ \E t \in Tasks : AnalysisReturns(t)
    \/ \E t \in Tasks : AnalysisThrows(t)

\* A dashboard of MaxPosts posts, with a slot for the callback of each: the
\* user types into the search box while the analyses run.
CeilingPosts == 1..MaxPosts
CeilingTasks == 1..MaxPosts

\* The callbacks whose analyzeContentHealth returns; those of the other slots
\* are still waiting for the provider.
ReturningTasks == {1}

CeilingNext ==
    \/ \E searchQuery \in Queries : SetPostSearchQuery(searchQuery)
    \/ Render
    \/ runBackgroundAnalysis
    \/ \E t \in CeilingTasks : DraftLookedUp(t)
    \/ \E t \in ReturningTasks : AnalysisReturns(t)

\* ------------------------------------------------------------------------
\* analyzeContentHealth and generateQuizAndMetadata
\* ------------------------------------------------------------------------
\* title.substring(0, 50) in the cache key of analyzeContentHealth.
TitlePrefixLen == 50

\* Slots for calls of the two functions: slot a makes its provider call in
\* call slot a.
Analyses == 1..MaxAnalyses

StrHealthPrefix == <<"h", "e", "a", "l", "t", "h", "_">>
StrQuizPrefix == <<"q", "u", "i", "z", "_", "v", "3", "_">>

\* The provider's name as the template literal prints it.
ProviderChars(p) ==
    CASE p = "gemini" -> <<"g", "e", "m", "i", "n", "i">>
      [] p = "openai" -> <<"o", "p", "e", "n", "a", "i">>

\* The strategy's name as the template literal prints it.
StrategyChars(st) ==
    CASE st = "standard" -> <<"s", "t", "a", "n", "d", "a", "r", "d">>
      [] st = "fact_check" -> <<"f", "a", "c", "t", "_", "c", "h", "e", "c", "k">>

\* The inputs of the model: post titles, the title of the chosen idea, the
\* optimisation strategies.
Titles == {<<"T">>, <<"U">>}
IdeaTitle == <<"I">>
Strategies == {"standard", "fact_check"}
\* The post contents of the model: none, and some.
PostContents == {<<>>, <<"A", "a">>}

\* The history of the entries that are in the cache c.
Present(src, c) == {m \in src : m.key \in CacheKeys(c)}

\* `health_${state.selectedProvider}_${title.substring(0, 50)}`
HealthCacheKey(provider, title) ==
    StrHealthPrefix \o ProviderChars(provider) \o <<"_">>
        \o SubSeq(title, 1, Min(Len(title), TitlePrefixLen))

\* `quiz_v3_${state.selectedProvider}_${postTitle}_${idea.title}_${strategy}`
QuizCacheKey(provider, title, ideaTitle, strategy) ==
    StrQuizPrefix \o ProviderChars(provider) \o <<"_">> \o title \o <<"_">>
        \o ideaTitle \o <<"_">> \o StrategyChars(strategy)

CacheKeyOf(fn, provider, title, strategy) ==
    IF fn = "health"
    THEN HealthCacheKey(provider, title)
    ELSE QuizCacheKey(provider, title, IdeaTitle, strategy)

\* generateQuizAndMetadata calls the SDK itself, outside withRetry.
IsGrounded(fn, provider, strategy) ==
    fn = "quiz" /\ provider = "gemini" /\ strategy = "fact_check"

\* What a provider can answer: a JSON object, a JSON object inside prose, no
\* JSON at all.
Responses ==
    {<<"{", "A", "}">>, <<"x", "{", "B", "}", "y">>, <<"n", "o">>}

\* String.prototype.indexOf and lastIndexOf of one character, counted from 0;
\* -1 when the character is absent.
IndexOf(str, ch) ==
    IF \E i \in 1..Len(str) : str[i] = ch
    THEN (CHOOSE i \in 1..Len(str) :
             str[i] = ch /\ \A j \in 1..(i - 1) : str[j] # ch) - 1
    ELSE 0 - 1

LastIndexOf(str, ch) ==
    IF \E i \in 1..Len(str) : str[i] = ch
    THEN (CHOOSE i \in 1..Len(str) :
             str[i] = ch /\ \A j \in (i + 1)..Len(str) : str[j] # ch) - 1
    ELSE 0 - 1

\* String.prototype.substring(start, end): arguments below 0 count as 0, above
\* the length as the length, and they are swapped when start > end.
Clamp(n, len) == IF n < 0 THEN 0 ELSE IF n > len THEN len ELSE n
Substring(str, start, end) ==
    LET a == Clamp(start, Len(str))
        b == Clamp(end, Len(str))
    IN SubSeq(str, Min(a, b) + 1, IF a <= b THEN b ELSE a)

\* responseText.substring(responseText.indexOf('{'), responseText.lastIndexOf('}') + 1)
JsonString(responseText) ==
    Substring(responseText, IndexOf(responseText, "{"), LastIndexOf(responseText, "}") + 1)

\* JSON.parse of the model's texts: an object is a value between braces.
JsonParses(str) == Len(str) = 3 /\ str[1] = "{" /\ str[3] = "}"
JsonParse(str) == str[2]

\* A slot in which no call of the function fn has been made.
IdleAnalysis(fn) ==
    [pc |-> "idle", fn |-> fn, key |-> NoKey, content |-> <<>>,
     outcome |-> "none", result |-> Null]

\* The function is entered: the cache is read; on a hit the function returns,
\* on a miss the provider call begins.
AnalyzeBegin(a, title, content, strategy) ==
    /\ analysis[a].pc \in {"idle", "done"}
    /\ calls[a].pc = "idle"
    /\ LET fn == analysis[a].fn
           k == CacheKeyOf(fn, selectedProvider, title, strategy)
       IN
       /\ LRUGet(k, content)
       /\ IF cret'.value # Null
          THEN /\ analysis' = [analysis EXCEPT ![a] =
                     [IdleAnalysis(fn) EXCEPT !.pc = "done", !.key = k,
                                              !.content = content,
                                              !.outcome = "cached",
                                              !.result = cret'.value]]
               /\ UNCHANGED callVars
          ELSE /\ analysis' = [analysis EXCEPT ![a] =
                     [IdleAnalysis(fn) EXCEPT !.pc = "calling", !.key = k,
                                              !.content = content]]
               /\ IF IsGrounded(fn, selectedProvider, strategy)
                  THEN GroundedEntry(a) /\ UNCHANGED <<circuitBreakers, consec, trial>>
                  ELSE WithRetryEntry(a)
               /\ UNCHANGED selectedProvider
    /\ source' = Present(source, cache')
    /\ UNCHANGED <<now, draftVars, schedVars, sideVars>>

\* The provider call has returned or thrown: the function throws, or parses the
\* response, stores the result in the cache and returns it.
AnalyzeEnd(a, responseText) ==
    /\ analysis[a].pc = "calling"
    /\ calls[a].pc = "done"
    /\ calls' = [calls EXCEPT ![a] = IdleCall]
    /\ LET jsonString == JsonString(responseText) IN
       IF calls[a].outcome = "error" \/ ~JsonParses(jsonString)
       THEN /\ analysis' = [analysis EXCEPT ![a].pc = "done", ![a].outcome = "error"]
            /\ UNCHANGED <<cacheVars, source>>
       ELSE LET result == JsonParse(jsonString) IN
            /\ LRUSet(analysis[a].key, result, analysis[a].content)
            /\ analysis' = [analysis EXCEPT ![a].pc = "done", ![a].outcome = "fresh",
                                            ![a].result = result]
            /\ source' = Present({m \in source : m.key # analysis[a].key}, cache')
                            \cup {[key |-> analysis[a].key,
                                   content |-> analysis[a].content,
                                   value |-> result]}
    /\ UNCHANGED <<now, selectedProvider, circuitBreakers, consec, trial, draftVars, schedVars, sideVars>>

\* No call of either function has been made.
AnalysisIdle(fn) ==
    /\ analysis = [a \in Analyses |-> IdleAnalysis(fn)]
    /\ source = {}

\* ------------------------------------------------------------------------
\* Progress reporting of the streamed calls (aiService.ts)
\* ------------------------------------------------------------------------
StreamProviders == {"gemini", "openai", "anthropic", "openrouter"}

\* What a chunk adds to the progress of a provider's stream, and the most a
\* chunk reports.
ChunkStep(provider) ==
    CASE provider = "gemini" -> 10
      [] provider = "openai" -> 5
      [] provider = "anthropic" -> 3
      [] provider = "openrouter" -> 4
ChunkProgressCap == 95

\* The progress passed to onStream with a chunk: Gemini's from the number of
\* chunks, the others' from the progress so far.
ChunkProgress(provider, chunkCount, local) ==
    IF provider = "gemini"
    THEN Min(chunkCount * ChunkStep(provider), ChunkProgressCap)
    ELSE Min(local + ChunkStep(provider), ChunkProgressCap)

IdleStream ==
    [pc |-> "idle", fn |-> "health", provider |-> "gemini", attempt |-> 0,
     chunkCount |-> 0, local |-> 0, outcome |-> "none"]

StreamIdle ==
    /\ stream = IdleStream
    /\ progress = <<>>

Ends(outcome) == [stream EXCEPT !.pc = "done", !.outcome = outcome]

\* analyzeContentHealth or generateQuizAndMetadata is called with a stream
\* callback, up to its first await: a cached result, an open circuit, the
\* grounded request, or the first attempt of callGenericChatApi.
StreamCall(fn, provider, strategy, cached, circuitOpen) ==
    /\ stream.pc \in {"idle", "done"}
    /\ LET call == [IdleStream EXCEPT !.fn = fn, !.provider = provider] IN
       IF cached
       THEN /\ progress' = <<100>>
            /\ stream' = [call EXCEPT !.pc = "done", !.outcome = "success"]
       ELSE IF IsGrounded(fn, provider, strategy)
       THEN /\ progress' = <<5, 15>>
            /\ stream' = [call EXCEPT !.pc = "grounded"]
       ELSE IF circuitOpen
       THEN /\ progress' = <<5>>
            /\ stream' = [call EXCEPT !.pc = "done", !.outcome = "error"]
       ELSE /\ progress' = <<5>>
            /\ stream' = [call EXCEPT !.pc = "streaming"]
    /\ UNCHANGED <<now, callVars, cacheVars, analysisVars, draftVars, schedVars,
                   batchVars, modalVars, bufferVars>>

\* A chunk of the provider's stream arrives.
StreamChunk ==
    /\ stream.pc = "streaming"
    /\ stream.chunkCount < MaxChunks
    /\ LET value == ChunkProgress(stream.provider, stream.chunkCount + 1, stream.local) IN
       /\ stream' = [stream EXCEPT !.chunkCount = @ + 1, !.local = value]
       /\ progress' = Append(progress, value)
    /\ UNCHANGED <<now, callVars, cacheVars, analysisVars, draftVars, schedVars,
                   batchVars, modalVars, bufferVars>>

\* The attempt throws (the request, or the stream while it is read): withRetry
\* makes the next attempt after its wait, or throws.
StreamAttemptFails(retryable) ==
    /\ stream.pc = "streaming"
    /\ stream' = IF retryable /\ stream.attempt < MAX_RETRIES - 1
                 THEN [stream EXCEPT !.attempt = @ + 1, !.chunkCount = 0, !.local = 0]
                 ELSE Ends("error")
    /\ UNCHANGED progress
    /\ UNCHANGED <<now, callVars, cacheVars, analysisVars, draftVars, schedVars,
                   batchVars, modalVars, bufferVars>>

\* What the caller of the provider does with the response text: both parse
\* it, generateQuizAndMetadata reports 90 before and 100 after.
AfterResponse(fn, parses) ==
    IF fn = "health" THEN <<>>
    ELSE IF parses THEN <<90, 100>>
    ELSE <<90>>

\* The stream ends: callGenericChatApi reports 100 and returns the text.
StreamEnds(parses) ==
    /\ stream.pc = "streaming"
    /\ progress' = progress \o <<100>> \o AfterResponse(stream.fn, parses)
    /\ stream' = Ends(IF parses THEN "success" ELSE "error")
    /\ UNCHANGED <<now, callVars, cacheVars, analysisVars, draftVars, schedVars,
                   batchVars, modalVars, bufferVars>>

\* The grounded request returns, or throws or times out.
GroundedReturns(parses) ==
    /\ stream.pc = "grounded"
    /\ progress' = progress \o AfterResponse(stream.fn, parses)
    /\ stream' = Ends(IF parses THEN "success" ELSE "error")
    /\ UNCHANGED <<now, callVars, cacheVars, analysisVars, draftVars, schedVars,
                   batchVars, modalVars, bufferVars>>

GroundedThrows ==
    /\ stream.pc = "grounded"
    /\ stream' = Ends("error")
    /\ UNCHANGED progress
    /\ UNCHANGED <<now, callVars, cacheVars, analysisVars, draftVars, schedVars,
                   batchVars, modalVars, bufferVars>>

StreamNext ==
    \/ \E fn \in {"health", "quiz"}, provider \in StreamProviders,
          strategy \in Strategies, cached \in BOOLEAN, circuitOpen \in BOOLEAN :
          StreamCall(fn, provider, strategy, cached, circuitOpen)
    \/ StreamChunk
    \/ \E retryable \in BOOLEAN : StreamAttemptFails(retryable)
    \/ \E parses \in BOOLEAN : StreamEnds(parses)
    \/ \E parses \in BOOLEAN : GroundedReturns(parses)
    \/ GroundedThrows

\* The layers beside the posts and their drafts, at rest.
SideIdle == BatchIdle /\ ModalIdle /\ StreamIdle /\ BufferIdle

AppInit == AnalysisIdle("health") /\ DraftIdle(EmptyMap) /\ SchedIdle /\ SideIdle

\* The two functions over the call layer and the cache.
AnalysisNext ==
    \/ \E a \in Analyses, title \in Titles, content \in PostContents,
          strategy \in Strategies : AnalyzeBegin(a, title, content, strategy)
    \/ \E a \in Analyses : AttemptSucceeds(a)
    \/ \E a \in Analyses, e \in FailuresOf("gemini") : AttemptFails(a, e, 0)
    \/ \E a \in Analyses : RetryWake(a)
    \/ \E a \in Analyses : GroundedSucceeds(a)
    \/ \E a \in Analyses, e \in FailuresOf("gemini") : GroundedFails(a, e)
    \/ \E a \in Analyses : GroundedTimeout(a)
    \/ \E a \in Analyses, responseText \in Responses : AnalyzeEnd(a, responseText)
    \/ \E d \in TickSteps : Tick(d)

\* ------------------------------------------------------------------------
\* Specifications
\* ------------------------------------------------------------------------
RclInit ==
    /\ now = 0
    /\ selectedProvider \in Providers
    /\ circuitBreakers = [p \in Providers |-> NewBreaker]
    /\ calls = [c \in Calls |-> IdleCall]
    /\ consec = [p \in Providers |-> 0]
    /\ trial = [p \in Providers |-> {}]

Init == RclInit /\ CacheInit(CacheMaxSize) /\ AppInit

\* The remote call layer.
Next ==
    \/ \E c \in Calls : StartCall(c)
    \/ \E c \in Calls : AttemptSucceeds(c)
    \/ \E c \in Calls, e \in AllFailures, j \in Jitters : AttemptFails(c, e, j)
    \/ \E c \in Calls : RetryWake(c)
    \/ \E c \in Calls : StartGrounded(c)
    \/ \E c \in Calls : GroundedSucceeds(c)
    \/ \E c \in Calls, e \in FailuresOf("gemini") : GroundedFails(c, e)
    \/ \E c \in Calls : GroundedTimeout(c)
    \/ \E c \in Calls : Consume(c)
    \/ \E d \in TickSteps : Tick(d)

Spec == Init /\ [][Next]_vars

\* A cache whose entries age, under one of the providers.
InitCache ==
    RclInit /\ selectedProvider = "gemini" /\ CacheInit(AgedCacheMaxSize) /\ AppInit

SpecCache == InitCache /\ [][CacheNext]_vars

\* A cache that fills and evicts, under one of the providers.
InitLRU ==
    RclInit /\ selectedProvider = "gemini" /\ CacheInit(CacheMaxSize) /\ AppInit

SpecLRU == InitLRU /\ [][LRUNext]_vars

\* Calls of one of the two functions, under the provider that has both ways
\* to the network.
InitAnalysis ==
    /\ RclInit
    /\ selectedProvider = "gemini"
    /\ CacheInit(AgedCacheMaxSize)
    /\ \E fn \in {"health", "quiz"} : AnalysisIdle(fn)
    /\ DraftIdle(EmptyMap)
    /\ SchedIdle
    /\ SideIdle

SpecAnalysis == InitAnalysis /\ [][AnalysisNext]_vars

\* The draft store under the calls the application makes.
InitDraft ==
    /\ RclInit
    /\ selectedProvider = "gemini"
    /\ CacheInit(AgedCacheMaxSize)
    /\ AnalysisIdle("health")
    /\ DraftIdle(EmptyMap)
    /\ SchedIdle
    /\ SideIdle

SpecDraft == InitDraft /\ [][DraftNext]_vars

\* The draft store over what an earlier session may have left.
InitIntegrity ==
    /\ RclInit
    /\ selectedProvider = "gemini"
    /\ CacheInit(AgedCacheMaxSize)
    /\ AnalysisIdle("health")
    /\ \E store \in DraftStores : DraftIdle(store)
    /\ SchedIdle
    /\ SideIdle

SpecIntegrity == InitIntegrity /\ [][IntegrityNext]_vars

\* The draft store near its capacity, with records of earlier sessions.
InitEvict ==
    /\ RclInit
    /\ selectedProvider = "gemini"
    /\ CacheInit(AgedCacheMaxSize)
    /\ AnalysisIdle("health")
    /\ \E n \in StoreCounts, expired \in ExpiredCounts : DraftIdle(AgedStore(n, expired))
    /\ SchedIdle
    /\ SideIdle

SpecEvict == InitEvict /\ [][EvictNext]_vars

\* The background analysis of the posts, over the draft store.
InitSched ==
    /\ RclInit
    /\ selectedProvider = "gemini"
    /\ CacheInit(AgedCacheMaxSize)
    /\ AnalysisIdle("health")
    /\ \E store \in SchedStores : DraftIdle(store)
    /\ SchedIdle
    /\ SideIdle

SpecSched == InitSched /\ [][SchedNext]_vars

\* The same, with the event loop running every callback that is ready and
\* React rendering after a dispatch.
FairSpecSched == InitSched /\ [][SchedNext]_vars /\ WF_vars(Background)

\* The background analysis of a dashboard of more posts than one invocation
\* starts.
InitCeiling ==
    /\ RclInit
    /\ selectedProvider = "gemini"
    /\ CacheInit(AgedCacheMaxSize)
    /\ AnalysisIdle("health")
    /\ DraftIdleOver(CeilingPosts, EmptyMap)
    /\ SchedIdleOver(CeilingPosts, CeilingTasks)
    /\ SideIdle

SpecCeiling == InitCeiling /\ [][CeilingNext]_vars

\* Calls of processBatch, one after the other.
InitBatch ==
    /\ RclInit
    /\ selectedProvider = "gemini"
    /\ CacheInit(AgedCacheMaxSize)
    /\ AnalysisIdle("health")
    /\ DraftIdle(EmptyMap)
    /\ SchedIdle
    /\ SideIdle

SpecBatch == InitBatch /\ [][BatchNext]_vars

\* The modal over the drafts of an earlier session.
InitModal ==
    /\ RclInit
    /\ selectedProvider = "gemini"
    /\ CacheInit(AgedCacheMaxSize)
    /\ AnalysisIdle("quiz")
    /\ \E store \in ModalStores : DraftIdleOver(ModalPosts, store)
    /\ SchedIdle
    /\ SideIdle

SpecModal == InitModal /\ [][ModalNext]_vars

\* Calls of the two functions with a stream callback, one after the other.
InitStream ==
    /\ RclInit
    /\ selectedProvider = "gemini"
    /\ CacheInit(AgedCacheMaxSize)
    /\ AnalysisIdle("health")
    /\ DraftIdle(EmptyMap)
    /\ SchedIdle
    /\ SideIdle

SpecStream == InitStream /\ [][StreamNext]_vars

\* The draft store over what an earlier session may have left, with reads
\* that take time and flushes that may fail.
InitBuffer ==
    /\ RclInit
    /\ selectedProvider = "gemini"
    /\ CacheInit(AgedCacheMaxSize)
    /\ AnalysisIdle("health")
    /\ \E store \in DraftStores : DraftIdle(store)
    /\ SchedIdle
    /\ SideIdle

SpecBuffer == InitBuffer /\ [][BufferNext]_vars

\* ------------------------------------------------------------------------
\* Claims about the remote call layer
\* ------------------------------------------------------------------------
\* This step is call c entering withRetry.
EntersWithRetry(c) ==
    /\ calls[c].pc = "idle"
    /\ calls'[c].pc # "idle"
    /\ calls'[c].path = "generic"

\* This step leaves call c rejected by the breaker: the service-unavailable
\* error and no network attempt.
RejectedAfter(c) ==
    /\ calls'[c].pc = "done"
    /\ calls'[c].thrown = Unavailable
    /\ calls'[c].net = 0

\* This step is a pending call c ending in an error.
EndsInError(c) ==
    /\ calls[c].pc = "attempting"
    /\ calls'[c].pc = "done"
    /\ calls'[c].outcome = "error"

\* C1: once CIRCUIT_BREAKER_THRESHOLD calls in a row to a provider have each
\* ended in a recorded failure (no success in between), a call to that provider
\* made before the cooldown has elapsed since the last failure is rejected with
\* the service-unavailable error and makes no network attempt.
C1_OpensAfterThreshold ==
    [][\A c \in Calls :
          (/\ EntersWithRetry(c)
           /\ consec[selectedProvider] >= CIRCUIT_BREAKER_THRESHOLD
           /\ now - circuitBreakers[selectedProvider].lastFailure
                 <= CIRCUIT_BREAKER_RESET_MS)
          => RejectedAfter(c)]_vars

\* C2: no network attempt to a provider, first or retry, on either path, starts
\* while that provider's breaker is open and its cooldown has not elapsed.
C2_NoAttemptWhileOpen ==
    [][\A c \in Calls :
          calls'[c].net > calls[c].net
          => ~OpenAt(circuitBreakers[calls'[c].provider], now)]_vars

\* C3: while the trial call admitted after the cooldown is still pending, every
\* other call to the same provider is rejected; and a trial call that succeeds
\* leaves the breaker closed with failure count 0.
C3_OneTrialCall ==
    [][\A c \in Calls :
          /\ (EntersWithRetry(c) /\ trial[selectedProvider] # {})
                => RejectedAfter(c)
          /\ (/\ c \in trial[calls[c].provider]
              /\ calls'[c].pc = "done"
              /\ calls'[c].outcome = "ok")
                => (/\ ~circuitBreakers'[calls[c].provider].isOpen
                    /\ circuitBreakers'[calls[c].provider].failures = 0)]_vars

\* C4: when the trial call admitted after the cooldown ends in failure, the
\* breaker is open right after that failure and its cooldown clock is the time
\* of the failure.
C4_TrialFailureReopens ==
    [][\A c \in Calls :
          (c \in trial[calls[c].provider] /\ EndsInError(c))
          => (/\ circuitBreakers'[calls[c].provider].isOpen
              /\ circuitBreakers'[calls[c].provider].lastFailure = now)]_vars

\* The classes of failure the spec's taxonomy never retries, and those it retries.
NeverRetried == {"auth", "validation", "quota"}
Retryable == {"server", "transport", "timeout"}

\* C5: an attempt of a call through withRetry that fails with an authentication,
\* validation or quota error is the call's only attempt from then on: the call
\* throws that error in the same step, with no backoff wait and no retry, and
\* exactly one circuit-breaker failure is recorded.
C5_NonRetryableFailsAtOnce ==
    [][\A c \in Calls, e \in AllFailures, j \in Jitters :
          (AttemptFails(c, e, j) /\ e.class \in NeverRetried)
          => (/\ calls'[c].pc = "done"
              /\ calls'[c].thrown = e
              /\ calls'[c].net = calls[c].net
              /\ circuitBreakers'[calls[c].provider].failures
                    = circuitBreakers[calls[c].provider].failures + 1)]_vars

\* C6: a call through withRetry that fails after retryable failures has made
\* exactly MAX_RETRIES network attempts and throws the failure of its last
\* attempt; a wait follows every attempt but the last, and each wait is at least
\* as long as any wait the attempt before it could have had.
C6_RetryBound ==
    \A c \in Calls :
        /\ calls[c].net <= MAX_RETRIES
        /\ (/\ calls[c].pc = "done"
            /\ calls[c].path = "generic"
            /\ calls[c].failed.class \in Retryable)
           => (/\ calls[c].net = MAX_RETRIES
               /\ calls[c].outcome = "error"
               /\ calls[c].thrown = calls[c].failed)
        /\ calls[c].pc = "waiting"
           => (/\ calls[c].attempt < MAX_RETRIES - 1
               /\ calls[c].net = calls[c].attempt + 1
               /\ calls[c].wakeAt = now + calls[c].delay \/ calls[c].wakeAt < now
               /\ calls[c].delay >= RETRY_BACKOFF_MS
               /\ calls[c].attempt >= 1
                  => \A j \in Jitters :
                        calls[c].delay >= RetryDelay(calls[c].attempt - 1, j))

\* A call has thrown a server failure after its third attempt.
C6_Witness ==
    \E c \in Calls :
        /\ calls[c].pc = "done"
        /\ calls[c].path = "generic"
        /\ calls[c].failed.class = "server"
        /\ calls[c].net = MAX_RETRIES
        /\ calls[c].thrown = calls[c].failed

\* C7: every network attempt in flight has a timeout armed.
C7_EveryAttemptHasTimeout ==
    \A c \in Calls : calls[c].pc = "attempting" => calls[c].deadline # NoTime

\* ------------------------------------------------------------------------
\* Claims about the cache
\* ------------------------------------------------------------------------
\* What counts as the content an entry was set with, for a later get: a content
\* of the hash the entry holds.
Matches(entry, content) == Hash(content) = entry.contentHash

\* C8. Content sensitivity: when set(key, v, contentA) is followed by
\* get(key, contentB) with contentB other than contentA, the get returns a miss.
C8_ContentSensitive ==
    [][LET k == cret'.key
           content == cret'.content
       IN (/\ cret.op = "set"
           /\ cret'.op = "get"
           /\ cret.key = k
           /\ cret.content # content
           /\ CacheGet(k, content))
          => cret'.value = Null]_vars

\* C9. LRU eviction: once capacity + 1 distinct keys have been inserted, with
\* any gets that hit in between, exactly one of them is no longer in the cache,
\* it is the key whose latest access (insertion or hit) was the oldest when the
\* last key went in, and the others are all present.
C9_LRUEviction ==
    (distinct /\ Cardinality(inserted) = maxSize + 1)
    => /\ CacheKeys(cache) = {recency[i] : i \in 1..Len(recency)}
       /\ CacheKeys(cache) \subseteq inserted
       /\ Cardinality(inserted \ CacheKeys(cache)) = 1
       /\ Len(cache) = maxSize

\* capacity + 1 distinct keys went in and a get hit one of those still present.
C9_Witness ==
    /\ distinct
    /\ Cardinality(inserted) = maxSize + 1
    /\ \E i \in 1..Len(cache) : cache[i].accessCount > 1

\* C10. TTL: a get with matching content of an entry inserted at T returns the
\* entry's value at any time before T + ttl, and at any time after T + ttl it
\* returns a miss and the entry is gone from the cache.
C10_TimeToLive ==
    [][LET k == cret'.key
           content == cret'.content
       IN (/\ cret'.op = "get"
           /\ k \in CacheKeys(cache)
           /\ Matches(EntryOf(cache, k), content)
           /\ CacheGet(k, content))
          => LET entry == EntryOf(cache, k) IN
             /\ now < entry.timestamp + CacheTtlMs
                => /\ cret'.value = entry.value
                   /\ cret'.value # Null
                   /\ k \in CacheKeys(cache')
             /\ now > entry.timestamp + CacheTtlMs
                => /\ cret'.value = Null
                   /\ k \notin CacheKeys(cache')]_vars

\* A get found its entry too old, and for no other reason returned a miss.
C10_Witness ==
    /\ cret.op = "get"
    /\ cret.isExpired
    /\ ~cret.isContentChanged
    /\ cret.value = Null
    /\ now > CacheTtlMs

\* ------------------------------------------------------------------------
\* Claims about analyzeContentHealth and generateQuizAndMetadata
\* ------------------------------------------------------------------------
\* C11. A cache hit avoids the network: when one of the two functions is called
\* with the key parameters and the content of an earlier call that returned a
\* result, and the entry that call stored is still in the cache and within its
\* TTL, the function returns that result, starts no provider call and leaves
\* the circuit breakers as they are.
C11_CacheHitAvoidsNetwork ==
    [][\A a \in Analyses, title \in Titles, content \in PostContents,
          strategy \in Strategies :
          LET k == CacheKeyOf(analysis[a].fn, selectedProvider, title, strategy) IN
          (/\ cret'.op = "get"
           /\ cret'.key = k
           /\ cret'.content = content
           /\ \E m \in source : m.key = k /\ m.content = content
           /\ now - EntryOf(cache, k).timestamp <= CacheTtlMs
           /\ AnalyzeBegin(a, title, content, strategy))
          => /\ analysis'[a].pc = "done"
             /\ analysis'[a].outcome = "cached"
             /\ \E m \in source :
                   m.key = k /\ m.content = content /\ analysis'[a].result = m.value
             /\ calls' = calls
             /\ circuitBreakers' = circuitBreakers]_vars

\* A call was answered from the cache while the provider's breaker was open.
C11_Witness ==
    \E a \in Analyses :
        /\ analysis[a].pc = "done"
        /\ analysis[a].outcome = "cached"
        /\ circuitBreakers["gemini"].isOpen
        /\ circuitBreakers["gemini"].failures >= CIRCUIT_BREAKER_THRESHOLD

\* ------------------------------------------------------------------------
\* Claims about the draft store
\* ------------------------------------------------------------------------
\* Object a has every property of object b, with b's value.
Contains(a, b) ==
    \A f \in FieldsOf(b) : f \in FieldsOf(a) /\ ValueOf(a, f) = ValueOf(b, f)

\* C12. saveImmediate durability: after saveDraftImmediate(postId, d) has
\* succeeded with only batched saves before it and no write to the post after
\* it, and the application has been closed and loaded again (the pending
\* buffer lost or flushed on unload), getDraft(postId) returns data that
\* contains the fields of d.
C12_SaveImmediateDurable ==
    [][\A postId \in Items :
          (/\ immediate[postId].reopened
           /\ dret'.op = "getDraft"
           /\ dret'.postId = postId
           /\ getDraft(postId))
          => /\ dret'.value # NoData
             /\ Contains(dret'.value, immediate[postId].data)]_vars

\* C14. Draft batching coalescence: two successive saveDraft calls for one post
\* made less than BATCH_DELAY_MS apart in one session, once both are written,
\* were carried by one and the same physical write, and the record it wrote
\* holds the merge of the data of the two calls, except for fields a later
\* call in the same write has set.
C14_Coalesced ==
    \A postId \in Items : \A m \in 1..(Len(saves[postId]) - 1) :
        LET first == saves[postId][m]
            second == saves[postId][m + 1]
        IN  (/\ second.at - first.at < BATCH_DELAY_MS
             /\ first.put > 0
             /\ second.put > 0)
            => /\ first.put = second.put
               /\ \A f \in FieldsOf(Merge(first.data, second.data)) :
                     /\ f \in FieldsOf(puts[postId][first.put])
                     /\ \/ ValueOf(puts[postId][first.put], f)
                              = ValueOf(Merge(first.data, second.data), f)
                        \/ \E l \in (m + 2)..Len(saves[postId]) :
                              /\ saves[postId][l].put = first.put
                              /\ f \in FieldsOf(saves[postId][l].data)

\* C17. runMaintenance reports what it did: the flushed count it returns is the
\* number of pending writes its flushBatch found in the buffer and put, and
\* the evicted count is the number of records its evictOldDrafts deleted.
C17_MaintenanceReports ==
    [][(/\ maintenance.pc = "evicting"
        /\ maintenance'.pc = "idle"
        /\ dret'.op = "runMaintenance")
       => /\ dret'.flushed = maintenance.written
          /\ dret'.evicted = Cardinality(DOMAIN drafts \ DOMAIN drafts')]_vars

C18_DraftDeletedOnPublish ==
    \A postId \in Items :
        workflow[postId] = "published"
        => /\ postId \notin DOMAIN pendingWrites
           /\ postId \notin DOMAIN drafts

\* This step is runMaintenance running evictOldDrafts and returning.
EvictsAndReturns ==
    /\ maintenance.pc = "evicting"
    /\ maintenance'.pc = "idle"
    /\ dret'.op = "runMaintenance"

DistinctUpdatedAt(store) ==
    \A i, j \in DOMAIN store : i # j => store[i].updatedAt # store[j].updatedAt

\* The k oldest records of the store.
Oldest(store, k) ==
    {j \in DOMAIN store :
        Cardinality({i \in DOMAIN store : store[i].updatedAt < store[j].updatedAt}) < k}

\* C15. Eviction under capacity pressure: when evictOldDrafts of a maintenance
\* run finds MAX_DRAFTS + k records (k >= 1) with distinct updatedAt values,
\* the run leaves at most MAX_DRAFTS records, the k oldest records are gone,
\* and every removed record is older than every surviving record.
C15_EvictionUnderPressure ==
    [][(/\ EvictsAndReturns
        /\ Size(drafts) > MAX_DRAFTS
        /\ DistinctUpdatedAt(drafts))
       => /\ Size(drafts') <= MAX_DRAFTS
          /\ Oldest(drafts, Size(drafts) - MAX_DRAFTS) \cap DOMAIN drafts' = {}
          /\ \A i \in DOMAIN drafts \ DOMAIN drafts', j \in DOMAIN drafts' :
                drafts[i].updatedAt < drafts[j].updatedAt]_vars

\* A maintenance run over more than MAX_DRAFTS records has removed records.
C15_Witness ==
    /\ dret.op = "runMaintenance"
    /\ dret.evicted > EVICT_BUFFER
    /\ maintenance.pc = "idle"
    /\ Size(drafts) = MAX_DRAFTS - EVICT_BUFFER

\* C16. After runMaintenance has completed, no durable draft older than
\* DRAFT_TTL_MS remains in the store, whatever the record count at the start.
C16_NoExpiredAfterMaintenance ==
    [][EvictsAndReturns
       => \A j \in DOMAIN drafts' : now - drafts'[j].updatedAt <= DRAFT_TTL_MS]_vars

\* ------------------------------------------------------------------------
\* Claims about the background analysis
\* ------------------------------------------------------------------------
\* A callback of runBackgroundAnalysis for the post is between its dispatch of
\* START_BACKGROUND_ANALYSIS and its end.
InFlight(postId) ==
    \E t \in DOMAIN tasks : tasks[t].pc \in {"draft", "analyzing"} /\ tasks[t].post = postId

\* C19. At most one background analysis per post is in flight:
\* START_BACKGROUND_ANALYSIS is never dispatched for a post whose analysis is
\* already in flight.
C19_OneAnalysisInFlight ==
    [][\A postId \in Items :
          (\E t \in Tasks : /\ tasks[t].pc = "idle"
                            /\ tasks'[t].pc = "draft"
                            /\ tasks'[t].post = postId)
          => ~InFlight(postId)]_vars

\* C20. Scheduler failure policy: whenever the background analysis of a post
\* has failed, the post's isAnalyzing flag is eventually cleared.
C20_FailureClearsFlag ==
    \A postId \in Items :
        [](  (\E t \in Tasks : /\ tasks[t].pc = "idle"
                               /\ tasks[t].outcome = "failed"
                               /\ tasks[t].post = postId)
             => <>(~posts[postId].isAnalyzing))

\* ------------------------------------------------------------------------
\* Claims about overwriting a cache entry
\* ------------------------------------------------------------------------
\* This step is a set of a key that the cache holds.
Overwrites ==
    /\ cret'.op = "set"
    /\ cret'.key \in CacheKeys(cache)

\* C30. LRUCache.set for a key that is already present never evicts another
\* key: the other keys of the cache are the same after the set.
C30_OverwriteKeepsOtherKeys ==
    [][Overwrites =>
          CacheKeys(cache') \ {cret'.key} = CacheKeys(cache) \ {cret'.key}]_vars

\* C21. Derived view consistency: in every reachable state filteredPosts is
\* computeFilteredPosts(posts, postSearchQuery, postFilter).
C21_FilteredPostsConsistent ==
    filteredPosts = computeFilteredPosts(posts, postSearchQuery, postFilter)

\* This step dispatches START_BACKGROUND_ANALYSIS for the post.
Starts(postId) ==
    \E t \in DOMAIN tasks : /\ tasks[t].pc = "idle"
                            /\ tasks'[t].pc = "draft"
                            /\ tasks'[t].post = postId

\* C22. Candidate selection: one invocation of runBackgroundAnalysis starts at
\* most 5 analyses, and none for a post that has a health result in the
\* application state.
C22_CandidateSelection ==
    [][/\ Cardinality({p \in DOMAIN posts : Starts(p)}) <= BatchSize
       /\ \A p \in DOMAIN posts : Starts(p) => ~posts[p].healthAnalysis]_vars

\* The callbacks that await analyzeContentHealth.
RemoteCallsInFlight == {t \in DOMAIN tasks : tasks[t].pc = "analyzing"}

\* C23. Scheduler concurrency ceiling: never more than 5 background remote
\* analysis calls are in flight at the same time.
C23_ConcurrencyCeiling == Cardinality(RemoteCallsInFlight) <= BatchSize

\* ------------------------------------------------------------------------
\* Claims about processBatch
\* ------------------------------------------------------------------------
\* C24. Worker pool ceiling: processBatch(tasks, c) never has more than c
\* tasks executing at the same time, calls execute() of no task twice, and
\* when it returns every task was executed once and has an entry, a result
\* or an error, in the returned map.
C24_WorkerPoolCeiling ==
    /\ batch.pc # "idle" => Cardinality(Executing) <= batch.concurrency
    /\ \A id \in BatchTasks : executions[id] <= 1
    /\ batch.pc = "returned" =>
          /\ \A id \in 1..batch.tasks : executions[id] = 1
          /\ DOMAIN batch.results = 1..batch.tasks
          /\ \A id \in 1..batch.tasks : batch.results[id] \in {"result", "error"}

\* A call with more tasks than workers has returned, c tasks were executing at
\* the same time, and the map holds a result and an error.
C24_Witness ==
    /\ batch.pc = "returned"
    /\ batch.tasks > batch.concurrency
    /\ peak = batch.concurrency
    /\ \E id, other \in 1..batch.tasks :
          batch.results[id] = "result" /\ batch.results[other] = "error"

\* ------------------------------------------------------------------------
\* Claims about the tool generation modal
\* ------------------------------------------------------------------------
\* This step is the result of a cancelled generation arriving.
CancelledResultArrives(g) ==
    /\ generations[g].pc = "running"
    /\ generations[g].cancelled
    /\ generations'[g].outcome = "returned"

\* C25. Cancellation discards the result: the result of a generation that
\* was cancelled while in flight changes neither generatedQuizHtml nor
\* suggestedContentUpdate nor modalStatus.
C25_CancelDiscardsResult ==
    [][\A g \in Generations :
          CancelledResultArrives(g) =>
              /\ modal'.generatedQuizHtml = modal.generatedQuizHtml
              /\ modal'.suggestedContentUpdate = modal.suggestedContentUpdate
              /\ modal'.modalStatus = modal.modalStatus]_vars

\* ------------------------------------------------------------------------
\* Claims about progress reporting
\* ------------------------------------------------------------------------
\* C26. Progress reporting: the progress values passed to the stream callback
\* by one call never decrease, 100 is passed at most once, and a successful
\* call passes it exactly once, as its last value.
C26_ProgressMonotone ==
    /\ \A i, j \in 1..Len(progress) : i < j => progress[i] <= progress[j]
    /\ Cardinality({i \in 1..Len(progress) : progress[i] = 100}) <= 1
    /\ stream.outcome = "success" =>
          /\ Len(progress) > 0
          /\ progress[Len(progress)] = 100

\* ------------------------------------------------------------------------
\* Claims about the pending-write buffer
\* ------------------------------------------------------------------------
\* C27. Flush timer: whenever the pending-write buffer is non-empty, a flush
\* timer is armed.
C27_PendingHasTimer == Size(pendingWrites) > 0 => timers # {}

\* C28. The cleanup of getDraft keeps newer data: when the durable read of a
\* post completes, a pending write of the post (saved after the read began)
\* is still in the buffer, unchanged.
C28_CleanupKeepsNewerSave ==
    [][\A postId \in Items :
          (postId \in reads /\ postId \notin reads' /\ postId \in DOMAIN pendingWrites)
             => /\ postId \in DOMAIN pendingWrites'
                /\ pendingWrites'[postId] = pendingWrites[postId]]_vars

\* C29. A failed flush loses nothing: after a flush whose durable write
\* failed, every write of its batch is still in the pending-write buffer.
C29_FailedFlushKeepsWrites ==
    [][(flushError' # flushError /\ flushError' # EmptyMap)
          => \A postId \in DOMAIN flushError' :
                /\ postId \in DOMAIN pendingWrites'
                /\ pendingWrites'[postId].data = flushError'[postId].data]_vars

====
